---- MODULE Spec2Model ----
(***************************************************************************)
(* ESP32-LightManager: the event node (Eclo) on the light event loop, and  *)
(* the LEDC fade controller (FadeCtrl) with its ISR and consumer task, and  *)
(* the composite light (CompositeLight) with its power-share policies.     *)
(***************************************************************************)
EXTENDS Integers, Sequences, FiniteSets, TLC

VARIABLES
    subscr,      \* Eclo::subscr, the node's list of Evt_subscription
    handlers,    \* handler instances registered on the light event loop
    nextInst,    \* number of handler instances the loop has handed out
    queue,       \* events posted to the loop and not yet dispatched
    duty,        \* duty of the LEDC channel behind the node's light
    nposts,      \* number of events published by other parties so far
    aborted,     \* ESP_ERROR_CHECK has aborted the program
    last,        \* what the last step did: deliveries, commands run, posts
    loop_levt_h, \* the static loop handle of lightevents.cpp is not null
    alive,       \* the node is constructed and not destroyed
    nlast,       \* the last call on the node's subscriptions and its bus calls
    buslog,      \* nlast is being recorded
    myid,        \* Eclo::myid, the id the node is constructed with
    unknown_evnt_cb, \* Eclo::unknown_evnt_cb holds a function
    chf,         \* FadeCtrl::chf, fade engine and callback of every slot
    hwfade,      \* target duty of the fade the hardware runs on a channel
    chduty,      \* duty of every LEDC channel
    g_fade_evt,  \* PWMCtl::g_fade_evt is a created event group
    eg,          \* bits set in the fade event group
    events_mask, \* FadeCtrl::events_mask
    cpc,         \* where the consumer task is in fd_events_handler
    cx,          \* x, the bits the consumer got from xEventGroupWaitBits
    ci,          \* i, the consumer's loop index
    cyc,         \* slots whose fade_end callback ran in this wake cycle
    cb0,         \* slots that had a callback when the consumer woke
    fpc,         \* where the calling task is in fadebyTime
    fch,         \* slot of the fadebyTime call in progress
    fprog,       \* progress of the fade accepted by that call
    nfaders,     \* number of setFader calls so far
    nfades,      \* number of fade requests so far
    faborted,    \* the consumer task has crashed the program
    lights,      \* channels of the LEDCLights constructed with the controller
    flast,       \* what the last step did: ISR parameter, callbacks invoked
    ls,          \* CompositeLight::ls, the light sources in order of insertion
    ps,          \* CompositeLight::ps, the power-share policy
    sub_type,    \* CompositeLight::sub_type, the kind of light it holds
    combined_value, \* CompositeLight::combined_value, what getMaxValue returns
    power,       \* GenericLight::power of the composite
    luma,        \* GenericLight::luma of the composite
    setnupdate,  \* the build has LEDC_DUTY_SETNUPDATE defined
    clast,       \* what the last step did on the composite
    lt,          \* a light the application drives by itself
    llast        \* the last call on that light and what was read after it

ecloVars == <<subscr, handlers, nextInst, queue, duty, nposts, aborted, last,
              loop_levt_h, alive, nlast, buslog, myid, unknown_evnt_cb>>

fadeVars == <<chf, hwfade, chduty, g_fade_evt, eg, events_mask, cpc, cx, ci, cyc,
              cb0, fpc, fch, fprog, nfaders, nfades, faborted, lights, flast>>

compVars == <<ls, ps, sub_type, combined_value, power, luma, setnupdate, clast,
              lt, llast>>

vars == <<ecloVars, fadeVars, compVars>>

(***************************************************************************)
(* Bounds of the model                                                     *)
(***************************************************************************)
MaxRegs == 3          \* handler instances registered over a run
MaxPosts == 1         \* events published by other parties over a run
UINT_BITS == 20       \* width the model gives to uint32_t

(***************************************************************************)
(* Identifiers and permissions (lightevents.hpp)                           *)
(***************************************************************************)
ID_ANONYMOUS == 0
ID_ANY == 65535
GRP_BIT_R == 0
GRP_BIT_W == 1
GRP_BIT_LEN == 2

\* enum class grp_perms_t
perm_read == 1
perm_write == 2
perm_rw == 3

\* the id of the node where no other is named
NodeId == 1
\* the ids a node is constructed with
NodeIds == {NodeId, ID_ANY}
\* a group that is not the node's own one
othergid == myid + 1

UINT_MOD == 2 ^ UINT_BITS
\* conversion of an integer to uint32_t
ToUint(x) == x % UINT_MOD

\* std::bitset<GRP_BIT_LEN> built from static_cast<uint8_t>(perm)
GrpMode(perm) == {b \in 0 .. (GRP_BIT_LEN - 1) : (perm \div (2 ^ b)) % 2 = 1}

(***************************************************************************)
(* The light behind the node: an LEDCLight with a linear curve and no      *)
(* fade controller, so that every fade_to_value is a set_to_value.         *)
(***************************************************************************)
DEFAULT_PWM_RESOLUTION == 10
DEFAULT_SCALE == 100

getMaxValue == (2 ^ DEFAULT_PWM_RESOLUTION) - 1
brtscale == DEFAULT_SCALE
increment == DEFAULT_SCALE \div 10

\* luma::curveMap for the linear curve: [0, scale] onto [0, max]
curveMap(value, max, scale) == (value * max) \div scale
\* luma::curveUnMap for the linear curve: [0, max] back onto [0, scale]
curveUnMap(value, max, scale) == (value * scale) \div max

\* the result of a brightness call: the duty and how often onChange fired
LightRes(d, n) == [duty |-> d, fired |-> n]

\* LEDCLight::set_to_value: chDuty(ch, value); onChange()
set_to_value(d, value) == LightRes(value, 1)
\* LEDCLight::fade_to_value with fc == nullptr
fade_to_value(d, value, duration) == set_to_value(d, value)
\* GenericLight::goValue on a linear curve
goValue(d, value, duration) == fade_to_value(d, value, duration)
goMax(d, duration) == goValue(d, getMaxValue, duration)
goMin(d, duration) == goValue(d, 1, duration)
goOn(d, duration) == goMax(d, duration)
goOff(d, duration) == goValue(d, 0, duration)
goToggle(d, duration) == IF d # 0 THEN goOff(d, duration) ELSE goOn(d, duration)
goStep(d, step, duration) == goValue(d, ToUint(d + step), duration)

getValueScaled(d, scale) ==
    LET sc == IF scale <= 0 THEN brtscale ELSE scale
    IN  curveUnMap(d, getMaxValue, sc)

\* a scaled set that takes the scale as given
goValueScaled_rawscale(d, value, scale, duration) ==
    IF value >= scale THEN goMax(d, duration)
    ELSE IF value = 0 THEN goOff(d, duration)
    ELSE fade_to_value(d, curveMap(value, getMaxValue, scale), duration)

goValueScaled(d, value, scale, duration) ==
    LET sc == IF scale <= 0 THEN brtscale ELSE scale
    IN  IF value >= sc THEN goMax(d, duration)
        ELSE IF value = 0 THEN goOff(d, duration)
        ELSE fade_to_value(d, curveMap(value, getMaxValue, sc), duration)

goStepScaled(d, step, scale, duration) ==
    IF step = 0 THEN LightRes(d, 0)
    ELSE LET cur == getValueScaled(d, scale)
         IN  IF ToUint(cur + step) <= 0 THEN goOff(d, -1)
             ELSE goValueScaled(d, ToUint(step + cur), scale, duration)

goIncr(d, duration) == goStepScaled(d, increment, brtscale, duration)
goDecr(d, duration) == goStepScaled(d, (-1) * increment, brtscale, duration)

(***************************************************************************)
(* Events of the light event loop                                          *)
(***************************************************************************)
LOOP_LEVT_Q_SIZE == 32

\* an event as posted: base and id (the group) with the data it carries.
\* payload names the struct behind event_data.
Event(base, gid, payload, event, src, dst, value, step, scale, duration) ==
    [base |-> base, gid |-> gid, payload |-> payload, event |-> event,
     src |-> src, dst |-> dst, value |-> value, step |-> step,
     scale |-> scale, fade_duration |-> duration]

NoEvent == Event("none", 0, "none", "noop", 0, 0, 0, 0, 0, 0)

NoLast == [msg |-> NoEvent, delivered |-> 0, applied |-> 0, fired |-> 0,
           unknown |-> 0, posted |-> <<>>]

\* esp_event_post_to by a handler running on the loop's own task, wrapped
\* in ESP_ERROR_CHECK: a full queue times the post out and aborts.
esp_event_post_checked(s, e) ==
    IF s.aborted THEN s
    ELSE IF Len(s.q) >= LOOP_LEVT_Q_SIZE THEN [s EXCEPT !.aborted = TRUE]
    ELSE [s EXCEPT !.q = Append(@, e), !.posted = Append(@, e)]

\* Eclo::evt_state_post: a local_state_evt with light->getState()
evt_state_post(s, evnt, groupid, dst) ==
    esp_event_post_checked(s,
        Event("LSTATE_EVENTS", IF groupid # 0 THEN groupid ELSE myid,
              "local_state_evt", evnt, myid, dst, s.duty, 0, 0, 0))

\* Eclo::evt_pong_post: a local_srvc_evt posted with base LSTATE_EVENTS
evt_pong_post(s, groupid, dst) ==
    esp_event_post_checked(s,
        Event("LSTATE_EVENTS", groupid, "local_srvc_evt", "echoRpl",
              myid, dst, 0, 0, 0, 0))

\* a write test that does not look at the W bit
Writable_anyperm(sub) == sub.base = "LSTATE_EVENTS"

\* the test of the onChange lambda: the groups that are not skipped
Writable(sub) == sub.base = "LSTATE_EVENTS" /\ GRP_BIT_W \in sub.grpmode

\* the lambda the constructor attaches to the light's onChange: one
\* stateUpdate per subscription with base LSTATE_EVENTS and the W bit
RECURSIVE onChangePost(_, _, _)
onChangePost(s, subs, i) ==
    IF i > Len(subs) THEN s
    ELSE IF ~Writable(subs[i])
         THEN onChangePost(s, subs, i + 1)
         ELSE onChangePost(evt_state_post(s, "stateUpdate", subs[i].gid, ID_ANONYMOUS),
                           subs, i + 1)

\* GenericLight::onChange, run `n` times
RECURSIVE onChange(_, _, _)
onChange(s, subs, n) ==
    IF n = 0 THEN s
    ELSE onChange(onChangePost([s EXCEPT !.fired = @ + 1], subs, 1), subs, n - 1)

\* the light method evt_cmd_runner's switch selects
LightCall(d, cmd) ==
    CASE cmd.event = "goValue" -> goValue(d, cmd.value, cmd.fade_duration)
      [] cmd.event = "goValueScaled" ->
            goValueScaled(d, cmd.value, cmd.scale, cmd.fade_duration)
      [] cmd.event = "goMax" -> goMax(d, cmd.fade_duration)
      [] cmd.event = "goMin" -> goMin(d, cmd.fade_duration)
      [] cmd.event = "goOn" -> goOn(d, cmd.fade_duration)
      [] cmd.event = "goOff" -> goOff(d, cmd.fade_duration)
      [] cmd.event = "goToggle" -> goToggle(d, cmd.fade_duration)
      [] cmd.event = "goIncr" -> goIncr(d, cmd.fade_duration)
      [] cmd.event = "goDecr" -> goDecr(d, cmd.fade_duration)
      [] cmd.event = "goStep" -> goStep(d, cmd.step, cmd.fade_duration)
      [] cmd.event = "goStepScaled" ->
            goStepScaled(d, cmd.step, cmd.scale, cmd.fade_duration)
      [] OTHER -> LightRes(d, 0)

\* Eclo::evt_cmd_runner
evt_cmd_runner(s, subs, cmd) ==
    LET r == LightCall(s.duty, cmd)
    IN  onChange([s EXCEPT !.duty = r.duty, !.applied = @ + 1], subs, r.fired)

\* Eclo::subscr_by_gid: index of the first subscription with that gid, or 0
subscr_by_gid(subs, gid) ==
    IF \E i \in 1 .. Len(subs) : subs[i].gid = gid
    THEN CHOOSE i \in 1 .. Len(subs) :
            /\ subs[i].gid = gid
            /\ \A j \in 1 .. (i - 1) : subs[j].gid # gid
    ELSE 0

\* a read test that lets any subscription of the group take commands
Readable_anyperm(sub) == TRUE

\* the test event_picker makes on the subscription subscr_by_gid returns
Readable(sub) == GRP_BIT_R \in sub.grpmode

\* Eclo::event_picker
event_picker(s, subs, base, gid, e) ==
    LET d == [s EXCEPT !.delivered = @ + 1]
    IN  IF base = "LCMD_EVENTS"
        THEN LET sub == subscr_by_gid(subs, gid)
             IN  IF sub = 0 THEN d
                 ELSE IF Readable(subs[sub])
                      THEN evt_cmd_runner(d, subs, e)
                      ELSE d
        ELSE IF base = "LSERVICE_EVENTS"
        THEN IF e.dst # myid \/ e.dst # ID_ANY THEN d
             ELSE CASE e.event = "echoRq" -> evt_pong_post(d, gid, e.src)
                    [] e.event = "getState" ->
                          evt_state_post(d, "stateReport", gid, e.src)
                    [] OTHER -> d
        ELSE IF s.cb THEN [d EXCEPT !.unknown = @ + 1] ELSE d

\* Eclo::event_hndlr, for each handler instance the loop holds for the
\* event's base and id, in the order of registration
RECURSIVE RunHandlers(_, _, _, _)
RunHandlers(s, subs, hs, e) ==
    IF hs = <<>> \/ s.aborted THEN s
    ELSE LET h == Head(hs)
         IN  IF h.base = e.base /\ h.id = e.gid
             THEN RunHandlers(event_picker(s, subs, e.base, e.gid, e), subs, Tail(hs), e)
             ELSE RunHandlers(s, subs, Tail(hs), e)

(***************************************************************************)
(* Subscriptions                                                           *)
(***************************************************************************)
\* esp_event_handler_instance_register_with(loop, base, id, ...)
RegisterWith(hs, base, id, inst) ==
    Append(hs, [base |-> base, id |-> id, inst |-> inst])

\* esp_event_handler_instance_unregister_with(loop, base, id, instance)
UnregisterWith(hs, base, id, inst) ==
    SelectSeq(hs, LAMBDA h : ~(h.base = base /\ h.id = id /\ h.inst = inst))

\* a call the node makes into the event loop library
BusCall(op, base, id, inst) == [op |-> op, base |-> base, id |-> id, inst |-> inst]

\* lightmgr::start_levt_loop on st = [subscr, handlers, nextInst, loop,
\* create, calls, fault]; st.create is what esp_event_loop_create returns,
\* and only a successful creation sets the handle
start_levt_loop(st) ==
    IF st.loop THEN st
    ELSE [st EXCEPT !.calls = Append(@, BusCall("create", "none", 0, 0)),
                    !.loop = (st.create = "ESP_OK")]

\* lightmgr::get_light_evts_loop
get_light_evts_loop(st) ==
    IF ~st.loop THEN start_levt_loop(st) ELSE st

\* the pointer get_light_evts_loop returns is the address of the static handle
loop_ptr == TRUE

\* a subscription that does not look for the pair in the table
evt_subscribe_nocheck(st, base, gid, perm, err) ==
    IF st.fault THEN [st |-> st, ok |-> FALSE]
    ELSE LET s1 == get_light_evts_loop(st)
             s2 == [s1 EXCEPT !.calls = Append(@, BusCall("register", base, myid, st.nextInst))]
         IN  IF ~s1.loop THEN [st |-> [s2 EXCEPT !.fault = TRUE], ok |-> FALSE]
             ELSE IF err # "ESP_OK" /\ err # "ESP_ERR_INVALID_STATE"
             THEN [st |-> s2, ok |-> FALSE]
             ELSE [st |-> [s2 EXCEPT
                        !.subscr = Append(@, [base |-> base, gid |-> gid,
                                              grpmode |-> GrpMode(perm),
                                              inst |-> st.nextInst]),
                        !.handlers = IF err = "ESP_OK"
                                     THEN RegisterWith(@, base, myid, st.nextInst)
                                     ELSE @,
                        !.nextInst = @ + 1],
                   ok |-> TRUE]

\* Eclo::evt_subscribe; err is what the registration returns. A registration
\* on a null loop handle fails the library's assert(event_loop).
evt_subscribe(st, base, gid, perm, err) ==
    IF st.fault THEN [st |-> st, ok |-> FALSE]
    ELSE IF \E i \in 1 .. Len(st.subscr) :
            st.subscr[i].base = base /\ st.subscr[i].gid = gid
    THEN [st |-> st, ok |-> FALSE]
    ELSE LET s1 == get_light_evts_loop(st)
             s2 == [s1 EXCEPT !.calls = Append(@, BusCall("register", base, myid, st.nextInst))]
         IN  IF ~s1.loop THEN [st |-> [s2 EXCEPT !.fault = TRUE], ok |-> FALSE]
             ELSE IF err # "ESP_OK" /\ err # "ESP_ERR_INVALID_STATE"
             THEN [st |-> s2, ok |-> FALSE]
             ELSE [st |-> [s2 EXCEPT
                        !.subscr = Append(@, [base |-> base, gid |-> gid,
                                              grpmode |-> GrpMode(perm),
                                              inst |-> st.nextInst]),
                        !.handlers = IF err = "ESP_OK"
                                     THEN RegisterWith(@, base, myid, st.nextInst)
                                     ELSE @,
                        !.nextInst = @ + 1],
                   ok |-> TRUE]

\* Eclo::grp_subscribe
grp_subscribe(st, gid, perm, err1, err2) ==
    evt_subscribe(evt_subscribe(st, "LCMD_EVENTS", gid, perm, err1).st,
                  "LSERVICE_EVENTS", gid, perm, err2)

\* the while loop of Eclo::unsubscribe: pop the last subscription and
\* unregister its instance under the subscription's base and gid. An
\* unregistration on a null loop handle fails the library's assert(event_loop).
RECURSIVE unsubscribe_each(_)
unsubscribe_each(st) ==
    IF st.subscr = <<>> \/ st.fault THEN st
    ELSE LET node == st.subscr[Len(st.subscr)]
             s1 == [st EXCEPT !.subscr = SubSeq(@, 1, Len(@) - 1),
                              !.calls = Append(@, BusCall("unregister", node.base,
                                                          node.gid, node.inst))]
         IN  IF ~st.loop THEN [s1 EXCEPT !.fault = TRUE]
             ELSE unsubscribe_each([s1 EXCEPT !.handlers =
                        UnregisterWith(@, node.base, node.gid, node.inst)])

\* Eclo::unsubscribe
unsubscribe(st) ==
    LET s1 == get_light_evts_loop(st)
    IN  IF ~loop_ptr THEN s1 ELSE unsubscribe_each(s1)

(***************************************************************************)
(* Inputs                                                                  *)
(***************************************************************************)
RegisterOutcomes == {"ESP_OK", "ESP_ERR_NO_MEM"}
Perms == {perm_read, perm_write}
Gids == {0, myid, othergid}
GrpGids == {myid, othergid}
SubscribeBases == {"LSTATE_EVENTS"}
CmdValues == {0, 40, 2000}
CmdScaledValues == {0, 40, 50, 120}
CmdSteps == {-30, 20}
CmdScales == {-1, 50}
Peers == {7}
peerid == CHOOSE p \in Peers : TRUE

Cmd(gid, event, value, step, scale) ==
    Event("LCMD_EVENTS", gid, "local_cmd_evt", event, peerid, myid, value, step, scale, -1)

Commands(gid) ==
    {Cmd(gid, "goValue", v, -1, -1) : v \in CmdValues}
    \cup {Cmd(gid, "goValueScaled", v, -1, sc) : v \in CmdScaledValues, sc \in CmdScales}
    \cup {Cmd(gid, ev, 0, -1, -1) :
            ev \in {"goMax", "goMin", "goOn", "goOff", "goToggle", "goIncr", "goDecr", "noop"}}
    \cup {Cmd(gid, "goStep", 0, st, -1) : st \in CmdSteps}
    \cup {Cmd(gid, "goStepScaled", 0, st, 50) : st \in CmdSteps}

Services(gid) ==
    {Event("LSERVICE_EVENTS", gid, "local_srvc_evt", ev, peerid, dst, 0, 0, 0, 0) :
        ev \in {"echoRq", "getState"}, dst \in {myid, ID_ANY, othergid}}
    \cup {Event("LSERVICE_EVENTS", gid, "local_srvc_evt", "echoRpl", peerid, myid, 0, 0, 0, 0)}

Others(gid) ==
    {Event("RCMD_EVENTS", gid, "local_cmd_evt", "goMax", peerid, myid, 0, -1, -1, -1)}

\* what other parties publish: to the node's own group anything, to the
\* other group one command and one service request
Posts ==
    Commands(myid) \cup Services(myid) \cup Others(myid)
    \cup {Cmd(othergid, "goMax", 0, -1, -1)}
    \cup {Event("LSERVICE_EVENTS", othergid, "local_srvc_evt", "echoRq", peerid, myid, 0, 0, 0, 0)}

(***************************************************************************)
(* The node's life                                                         *)
(***************************************************************************)
\* what esp_event_loop_create returns
CreateOutcomes == {"ESP_OK", "ESP_ERR_NO_MEM"}

NoNLast == [op |-> "none", base |-> "none", gid |-> 0, perm |-> 0, ok |-> FALSE,
            calls |-> <<>>]

\* a creation has an outcome only where the handle is null
Creates == IF loop_levt_h THEN {"ESP_OK"} ELSE CreateOutcomes

\* the record of a call, where calls are recorded
Logged(rec) == IF buslog THEN rec ELSE NoNLast

\* the node's subscriptions and the loop, as the subscription calls see them
NodeState(create) ==
    [subscr |-> subscr, handlers |-> handlers, nextInst |-> nextInst,
     loop |-> loop_levt_h, create |-> create, calls |-> <<>>, fault |-> FALSE]

\* Eclo::Eclo: grp_subscribe(myid, rw), then the onChange lambda is attached
EcloStart(create) ==
    \E err1 \in RegisterOutcomes, err2 \in RegisterOutcomes :
        LET r == grp_subscribe([subscr |-> <<>>, handlers |-> <<>>, nextInst |-> 0,
                                loop |-> FALSE, create |-> create, calls |-> <<>>,
                                fault |-> FALSE],
                               myid, perm_rw, err1, err2)
        IN  /\ subscr = r.st.subscr
            /\ handlers = r.st.handlers
            /\ nextInst = r.st.nextInst
            /\ queue = <<>>
            /\ duty = 0
            /\ nposts = 0
            /\ aborted = r.st.fault
            /\ last = NoLast
            /\ loop_levt_h = r.st.loop
            /\ alive = TRUE
            /\ unknown_evnt_cb = FALSE
            /\ nlast = Logged([NoNLast EXCEPT !.op = "Eclo", !.gid = myid,
                                              !.perm = perm_rw, !.ok = r.ok,
                                              !.calls = r.st.calls])

\* the node constructed with the loop created
EcloInit == buslog = FALSE /\ myid = NodeId /\ EcloStart("ESP_OK")

\* the node constructed, the loop created or not
NodeInit ==
    buslog = TRUE /\ myid = NodeId /\ \E create \in CreateOutcomes : EcloStart(create)

\* the node constructed with any id, the loop created
BusInit == buslog = FALSE /\ myid \in NodeIds /\ EcloStart("ESP_OK")

Subscribed(r, op, base, gid, perm) ==
    /\ r.st.nextInst <= MaxRegs
    /\ subscr' = r.st.subscr
    /\ handlers' = r.st.handlers
    /\ nextInst' = r.st.nextInst
    /\ loop_levt_h' = r.st.loop
    /\ aborted' = r.st.fault
    /\ last' = NoLast
    /\ nlast' = Logged([op |-> op, base |-> base, gid |-> gid, perm |-> perm,
                        ok |-> r.ok, calls |-> r.st.calls])
    /\ UNCHANGED <<queue, duty, nposts, alive, buslog, myid, unknown_evnt_cb>>
    /\ UNCHANGED <<fadeVars, compVars>>

GrpSubscribe ==
    /\ ~aborted
    /\ alive
    /\ \E gid \in GrpGids, perm \in Perms, err1 \in RegisterOutcomes,
          err2 \in RegisterOutcomes, create \in Creates :
        Subscribed(grp_subscribe(NodeState(create), gid, perm, err1, err2),
                   "grp_subscribe", "none", gid, perm)

EvtSubscribe ==
    /\ ~aborted
    /\ alive
    /\ \E base \in SubscribeBases, gid \in Gids, perm \in Perms,
          err \in RegisterOutcomes, create \in Creates :
        Subscribed(evt_subscribe(NodeState(create), base, gid, perm, err),
                   "evt_subscribe", base, gid, perm)

Unsubscribed(st, op) ==
    /\ subscr' = st.subscr
    /\ handlers' = st.handlers
    /\ loop_levt_h' = st.loop
    /\ aborted' = st.fault
    /\ last' = NoLast
    /\ nlast' = Logged([NoNLast EXCEPT !.op = op, !.calls = st.calls])
    /\ UNCHANGED <<nextInst, queue, duty, nposts, buslog, myid, unknown_evnt_cb>>
    /\ UNCHANGED <<fadeVars, compVars>>

Unsubscribe ==
    /\ ~aborted
    /\ alive
    /\ \E create \in Creates : Unsubscribed(unsubscribe(NodeState(create)), "unsubscribe")
    /\ UNCHANGED alive

\* Eclo::~Eclo
Destroy ==
    /\ ~aborted
    /\ alive
    /\ \E create \in Creates : Unsubscribed(unsubscribe(NodeState(create)), "~Eclo")
    /\ alive' = FALSE

\* the application shuts the loop down through the handle pointer that
\* start_levt_loop and get_light_evts_loop hand out: esp_event_loop_delete
\* drops the loop's handlers and events, and the handle is reset
LoopDown ==
    /\ ~aborted
    /\ loop_levt_h
    /\ loop_levt_h' = FALSE
    /\ handlers' = <<>>
    /\ queue' = <<>>
    /\ last' = NoLast
    /\ nlast' = Logged([NoNLast EXCEPT !.op = "loop_delete"])
    /\ UNCHANGED <<subscr, nextInst, duty, nposts, aborted, alive, buslog, myid, unknown_evnt_cb>>
    /\ UNCHANGED <<fadeVars, compVars>>

\* another party publishes an event on the loop
Post ==
    /\ ~aborted
    /\ nposts < MaxPosts
    /\ Len(queue) < LOOP_LEVT_Q_SIZE
    /\ \E e \in Posts : queue' = Append(queue, e)
    /\ nposts' = nposts + 1
    /\ last' = NoLast
    /\ nlast' = NoNLast
    /\ UNCHANGED <<subscr, handlers, nextInst, duty, aborted, loop_levt_h, alive, buslog, myid, unknown_evnt_cb>>
    /\ UNCHANGED <<fadeVars, compVars>>

\* other parties publish one command until the queue is full
BurstPosts == {Cmd(myid, "goMax", 0, -1, -1)}

Burst ==
    /\ ~aborted
    /\ nposts < MaxPosts
    /\ Len(queue) < LOOP_LEVT_Q_SIZE
    /\ \E e \in BurstPosts :
        queue' = queue \o [i \in 1 .. (LOOP_LEVT_Q_SIZE - Len(queue)) |-> e]
    /\ nposts' = nposts + 1
    /\ last' = NoLast
    /\ nlast' = NoNLast
    /\ UNCHANGED <<subscr, handlers, nextInst, duty, aborted, loop_levt_h, alive, buslog, myid, unknown_evnt_cb>>
    /\ UNCHANGED <<fadeVars, compVars>>

\* Eclo::eventcbAttach; f says that a function is given
EventcbAttach ==
    /\ ~aborted
    /\ alive
    /\ \E f \in BOOLEAN : unknown_evnt_cb' = f
    /\ last' = NoLast
    /\ nlast' = NoNLast
    /\ UNCHANGED <<subscr, handlers, nextInst, queue, duty, nposts, aborted, loop_levt_h, alive, buslog, myid>>
    /\ UNCHANGED <<fadeVars, compVars>>

\* the loop task takes the next event and runs the handlers registered for it
Dispatch ==
    /\ ~aborted
    /\ queue # <<>>
    /\ LET e == Head(queue)
           s == RunHandlers([duty |-> duty, q |-> Tail(queue), aborted |-> FALSE,
                             delivered |-> 0, applied |-> 0, fired |-> 0,
                             unknown |-> 0, posted |-> <<>>, cb |-> unknown_evnt_cb],
                            subscr, handlers, e)
       IN  /\ duty' = s.duty
           /\ queue' = s.q
           /\ aborted' = s.aborted
           /\ last' = [msg |-> e, delivered |-> s.delivered, applied |-> s.applied,
                       fired |-> s.fired, unknown |-> s.unknown, posted |-> s.posted]
    /\ nlast' = NoNLast
    /\ UNCHANGED <<subscr, handlers, nextInst, nposts, loop_levt_h, alive, buslog, myid, unknown_evnt_cb>>
    /\ UNCHANGED <<fadeVars, compVars>>

(***************************************************************************)
(* LEDC peripheral and fade controller (esp32ledc, esp32ledc_fader)        *)
(***************************************************************************)
\* sizes of the LEDC peripheral, scaled down from the ESP32's 2, 8 and 4
LEDC_SPEED_MODE_MAX == 2
LEDC_CHANNEL_MAX == 4
LEDC_TIMER_MAX == 2
MaxFaders == 2        \* setFader calls over a run
MaxFades == 2         \* fade requests over a run

NSlots == LEDC_SPEED_MODE_MAX * LEDC_CHANNEL_MAX
Slots == 0 .. (NSlots - 1)

\* (1 << LEDC_SPEED_MODE_MAX * LEDC_CHANNEL_MAX) - 1, as the set of its bits
CH_EVENTS_BIT_MASK == 0 .. (NSlots - 1)

\* PWMCtl::chInit: the physical channel behind logical channel i
chInit ==
    [i \in Slots |-> [speed_mode |-> i \div LEDC_CHANNEL_MAX,
                      channel |-> i % LEDC_CHANNEL_MAX]]

LEDC_FADE_END_EVT == "LEDC_FADE_END_EVT"
LedcEvents == {LEDC_FADE_END_EVT, "LEDC_OTHER_EVT"}

NoFade == 0 - 1
NoParam == [event |-> "none", speed_mode |-> 0, channel |-> 0]
\* a call of the controller by the calling task: who made it, its arguments,
\* whether it returned in the step and what, whether it started a hardware
\* fade, and the driver's answer to a direct duty set
NoCall == [op |-> "none", ch |-> 0, target |-> 0, done |-> FALSE, ret |-> FALSE,
           started |-> FALSE, err |-> "none"]
NoFLast == [isr |-> NoParam, calls |-> <<>>, call |-> NoCall, fired |-> {}]

\* one invocation of a slot's fe_callback_t, and the context it runs in
callback(slot, event, ctx) == [slot |-> slot, event |-> event, ctx |-> ctx]

\* the bit number isr_fade computes from the driver's parameter
IsrBit(param) == param.channel * (IF param.speed_mode # 0 THEN 2 ELSE 1)

\* an ISR that runs the slot's callback itself
isr_fade_calls(f, param) ==
    IF f.g_fade_evt /\ param.event = LEDC_FADE_END_EVT
    THEN [f EXCEPT !.eg = @ \cup {IsrBit(param)},
                   !.calls = Append(@, callback(IsrBit(param), "fade_end", "isr"))]
    ELSE f

\* PWMCtl::isr_fade
isr_fade(f, param) ==
    IF f.g_fade_evt /\ param.event = LEDC_FADE_END_EVT
    THEN [f EXCEPT !.eg = @ \cup {IsrBit(param)}]
    ELSE f

\* a driver that takes the fade whatever it answers
FadeEngineHW_fade_forced(hw, channel, target, ok) ==
    [hw EXCEPT ![channel % NSlots] = target]

\* FadeEngineHW::fade: ledc_set_fade_time_and_start on the engine's channel;
\* ok is the driver's answer
FadeEngineHW_fade(hw, channel, target, ok) ==
    IF ok THEN [hw EXCEPT ![channel % NSlots] = target] ELSE hw

\* PWMCtl::chDuty: the duty the channel gets, and the driver's esp_err_t
chDuty(d, ch, target, err) ==
    [duty |-> IF err = "ESP_OK" THEN [d EXCEPT ![ch % NSlots] = target] ELSE d,
     err |-> err]

\* FadeCtrl::nofade: the esp_err_t of chDuty returned as bool
nofade(d, ch, target, err) ==
    LET r == chDuty(d, ch, target, err)
    IN  [duty |-> r.duty, ret |-> (r.err # "ESP_OK")]

\* a setFader that makes a new engine on every call
setFader_renew(c, ch, f) ==
    LET k == ch % (LEDC_SPEED_MODE_MAX * LEDC_CHANNEL_MAX)
    IN  [c EXCEPT ![k] = [fe |-> TRUE, cb |-> (f \/ @.cb), made |-> @.made + 1]]

\* FadeCtrl::setFader; f says that a callback is given, made counts the
\* FadeEngineHW objects constructed for the slot
setFader(c, ch, f) ==
    LET k == ch % (LEDC_SPEED_MODE_MAX * LEDC_CHANNEL_MAX)
    IN  [c EXCEPT ![k] = [fe |-> TRUE, cb |-> (f \/ @.cb),
                          made |-> IF @.fe THEN @.made ELSE @.made + 1]]

\* a scan from the top bit down
EndCalls_msbfirst(x, i, c) ==
    LET k == LEDC_CHANNEL_MAX - 1 - i
    IN  IF k \in x /\ c[k].cb THEN <<callback(k, "fade_end", "consumer")>> ELSE <<>>

\* body of the consumer's loop at index i: x was shifted right i times
EndCalls(x, i, c) ==
    IF i \in x /\ c[i].cb THEN <<callback(i, "fade_end", "consumer")>> ELSE <<>>

FaderChannels == 0 .. NSlots
FadeChannels == Slots
FadeDuties == {5}
DutyOutcomes == {"ESP_OK", "ESP_FAIL"}
FadeDurations == {0, 100}

\* PWMCtl::getFaderEventGroup returns &g_fade_evt, the address of a static
\* member: the pointer the constructor tests is never null
getFaderEventGroup == TRUE

\* FadeCtrl::FadeCtrl(mask) with getFaderEventGroup; created says whether
\* xEventGroupCreate gave a group
FadeCtor(created, mask) ==
    /\ chf = [k \in Slots |-> [fe |-> FALSE, cb |-> FALSE, made |-> 0]]
    /\ hwfade = [k \in Slots |-> NoFade]
    /\ chduty = [k \in Slots |-> 0]
    /\ g_fade_evt = created
    /\ eg = {}
    /\ events_mask = mask
    /\ cpc = IF getFaderEventGroup THEN "wait" ELSE "none"
    /\ cx = {}
    /\ ci = 0
    /\ cyc = <<>>
    /\ cb0 = {}
    /\ lights = {}
    /\ fpc = "idle"
    /\ fch = 0
    /\ fprog = "none"
    /\ nfaders = 0
    /\ nfades = 0
    /\ faborted = FALSE
    /\ flast = NoFLast

\* FadeCtrl::FadeCtrl() with the default mask
FadeStart(created) == FadeCtor(created, CH_EVENTS_BIT_MASK)

\* the masks of a controller that shares the event group with another one
EventMasks == {{0}, {0, 1}}

\* FadeCtrl::FadeCtrl(mask) with a mask of some of the slots
MaskInit == \E mask \in EventMasks : FadeCtor(TRUE, mask)

FadeInit == \E created \in BOOLEAN : FadeStart(created)
FadeIdle == FadeStart(TRUE)

\* no event node constructed
EcloIdle ==
    /\ subscr = <<>>
    /\ handlers = <<>>
    /\ nextInst = 0
    /\ queue = <<>>
    /\ duty = 0
    /\ nposts = 0
    /\ aborted = FALSE
    /\ last = NoLast
    /\ loop_levt_h = FALSE
    /\ alive = FALSE
    /\ nlast = NoNLast
    /\ buslog = FALSE
    /\ myid = NodeId
    /\ unknown_evnt_cb = FALSE

SetFader ==
    /\ ~faborted
    /\ nfaders < MaxFaders
    /\ \E ch \in FaderChannels, f \in BOOLEAN : chf' = setFader(chf, ch, f)
    /\ nfaders' = nfaders + 1
    /\ flast' = NoFLast
    /\ UNCHANGED <<hwfade, chduty, g_fade_evt, eg, events_mask, cpc, cx, ci, cyc,
                   cb0, fpc, fch, fprog, nfades, faborted>>
    /\ UNCHANGED lights
    /\ UNCHANGED <<ecloVars, compVars>>

\* FadeCtrl::fadebyTime up to the return of fe->fade(); the driver takes the
\* fade only when the channel runs none (it waits for the channel otherwise).
\* op is the caller, ok the driver's answer to the fade, err its answer to a
\* direct duty set.
FadeByTimeCall(op, ch, target, ok, err) ==
    LET k == ch % (LEDC_SPEED_MODE_MAX * LEDC_TIMER_MAX)
        call == [NoCall EXCEPT !.op = op, !.ch = ch, !.target = target]
    IN  IF ~chf[k].fe
        THEN LET r == nofade(chduty, k, target, err)
             IN  /\ ok
                 /\ err = "ESP_OK" => hwfade[k % NSlots] = NoFade
                 /\ chduty' = r.duty
                 /\ flast' = [NoFLast EXCEPT !.call =
                                [call EXCEPT !.done = TRUE, !.ret = r.ret, !.err = err]]
                 /\ UNCHANGED <<hwfade, fpc, fch, fprog>>
        ELSE /\ err = "ESP_OK"
             /\ ok => hwfade[k] = NoFade
             /\ hwfade' = FadeEngineHW_fade(hwfade, k, target, ok)
             /\ fpc' = IF ok THEN "started" ELSE "idle"
             /\ fch' = IF ok THEN k ELSE 0
             /\ fprog' = IF ok /\ chf[k].cb THEN "hw" ELSE "none"
             /\ flast' = [NoFLast EXCEPT !.call =
                            [call EXCEPT !.done = ~ok, !.started = ok]]
             /\ UNCHANGED chduty

\* FadeCtrl::fadebyTime called by the application
FadeByTime ==
    /\ ~faborted
    /\ fpc = "idle"
    /\ nfades < MaxFades
    /\ \E ch \in FadeChannels, target \in FadeDuties, ok \in BOOLEAN,
          err \in DutyOutcomes :
            FadeByTimeCall("fadebyTime", ch, target, ok, err)
    /\ nfades' = nfades + 1
    /\ UNCHANGED <<chf, g_fade_evt, eg, events_mask, cpc, cx, ci, cyc, cb0,
                   nfaders, faborted, lights>>
    /\ UNCHANGED <<ecloVars, compVars>>

\* LEDCLight::LEDCLight with a controller: the fader is attached when
\* chStart gave ESP_OK
LightCtor ==
    /\ ~faborted
    /\ nfaders < MaxFaders
    /\ \E ch \in Slots \ lights, started \in BOOLEAN :
        /\ lights' = lights \cup {ch}
        /\ chf' = IF started THEN setFader(chf, ch, TRUE) ELSE chf
    /\ nfaders' = nfaders + 1
    /\ flast' = NoFLast
    /\ UNCHANGED <<hwfade, chduty, g_fade_evt, eg, events_mask, cpc, cx, ci, cyc,
                   cb0, fpc, fch, fprog, nfades, faborted>>
    /\ UNCHANGED <<ecloVars, compVars>>

\* LEDCLight::onFadeEvent: the lights whose onChange the callbacks fire
onFadeEvent(calls, regd) ==
    {calls[n].slot : n \in {m \in 1 .. Len(calls) : calls[m].event = "fade_end"}}
        \cap regd

\* LEDCLight::fade_to_value of a light with a controller: fadebyTime for a
\* duration, set_to_value (chDuty and onChange) for none
LightFadeToValue ==
    /\ ~faborted
    /\ fpc = "idle"
    /\ nfades < MaxFades
    /\ \E ch \in lights, target \in FadeDuties, duration \in FadeDurations,
          ok \in BOOLEAN, err \in DutyOutcomes :
        IF duration # 0
        THEN FadeByTimeCall("fade_to_value", ch, target, ok, err)
        ELSE /\ ok
             /\ err = "ESP_OK" => hwfade[ch] = NoFade
             /\ chduty' = chDuty(chduty, ch, target, err).duty
             /\ flast' = [NoFLast EXCEPT
                            !.call = [NoCall EXCEPT !.op = "set_to_value", !.ch = ch,
                                         !.target = target, !.done = TRUE, !.err = err],
                            !.fired = {ch}]
             /\ UNCHANGED <<hwfade, fpc, fch, fprog>>
    /\ nfades' = nfades + 1
    /\ UNCHANGED <<chf, g_fade_evt, eg, events_mask, cpc, cx, ci, cyc, cb0,
                   nfaders, faborted, lights>>
    /\ UNCHANGED <<ecloVars, compVars>>

\* FadeCtrl::fadebyTime after fe->fade() gave true: the fade_start callback
\* and the return
FadeStartNotify ==
    /\ ~faborted
    /\ fpc = "started"
    /\ LET calls == IF chf[fch].cb
                     THEN <<callback(fch, "fade_start", "caller")>>
                     ELSE <<>>
       IN  flast' = [NoFLast EXCEPT
                        !.calls = calls,
                        !.call = [NoCall EXCEPT !.op = "fadebyTime", !.ch = fch,
                                     !.target = hwfade[fch], !.done = TRUE,
                                     !.ret = TRUE, !.started = TRUE],
                        !.fired = onFadeEvent(calls, lights)]
    /\ fpc' = "idle"
    /\ fch' = 0
    /\ fprog' = "none"
    /\ UNCHANGED <<chf, hwfade, chduty, g_fade_evt, eg, events_mask, cpc, cx, ci,
                   cyc, cb0, nfaders, nfades, faborted>>
    /\ UNCHANGED lights
    /\ UNCHANGED <<ecloVars, compVars>>

\* FadeEngineHW::fade run on a channel's engine without fadebyTime
EngineFade ==
    /\ ~faborted
    /\ nfades < MaxFades
    /\ \E ch \in Slots, target \in FadeDuties :
        /\ chf[ch].fe
        /\ hwfade[ch] = NoFade
        /\ hwfade' = FadeEngineHW_fade(hwfade, ch, target, TRUE)
    /\ nfades' = nfades + 1
    /\ flast' = NoFLast
    /\ UNCHANGED <<chf, chduty, g_fade_evt, eg, events_mask, cpc, cx, ci, cyc, cb0,
                   fpc, fch, fprog, nfaders, faborted>>
    /\ UNCHANGED lights
    /\ UNCHANGED <<ecloVars, compVars>>

\* the driver reports an event of a channel that runs a fade: isr_fade runs
\* in interrupt context; with LEDC_FADE_END_EVT the fade is finished
HwEvent ==
    /\ ~faborted
    /\ \E slot \in Slots, ev \in LedcEvents :
        /\ hwfade[slot] # NoFade
        /\ LET param == [event |-> ev, speed_mode |-> chInit[slot].speed_mode,
                         channel |-> chInit[slot].channel]
               r == isr_fade([g_fade_evt |-> g_fade_evt, eg |-> eg, calls |-> <<>>],
                             param)
               ended == ev = LEDC_FADE_END_EVT
           IN  /\ eg' = r.eg
               /\ flast' = [NoFLast EXCEPT !.isr = param, !.calls = r.calls]
               /\ hwfade' = IF ended THEN [hwfade EXCEPT ![slot] = NoFade] ELSE hwfade
               /\ chduty' = IF ended THEN [chduty EXCEPT ![slot] = hwfade[slot]]
                            ELSE chduty
               /\ fprog' = IF ended /\ fprog = "hw" /\ slot = fch
                         THEN (IF IsrBit(param) \in r.eg THEN "bit" ELSE "none")
                         ELSE fprog
    /\ UNCHANGED <<chf, g_fade_evt, events_mask, cpc, cx, ci, cyc, cb0, fpc, fch,
                   nfaders, nfades, faborted>>
    /\ UNCHANGED lights
    /\ UNCHANGED <<ecloVars, compVars>>

\* the bit the ISR sets when the fade of the call in progress ends
CurBit == IsrBit([event |-> LEDC_FADE_END_EVT, speed_mode |-> chInit[fch].speed_mode,
                  channel |-> chInit[fch].channel])

\* fd_events_handler: xEventGroupWaitBits returns, the masked bits cleared
ConsumerWake ==
    /\ ~faborted
    /\ cpc = "wait"
    /\ g_fade_evt
    /\ eg \cap events_mask # {}
    /\ cx' = eg
    /\ eg' = eg \ events_mask
    /\ ci' = 0
    /\ cpc' = "loop"
    /\ cyc' = <<>>
    /\ cb0' = {k \in Slots : chf[k].cb}
    /\ fprog' = IF fprog = "bit" /\ CurBit \in eg THEN "seen" ELSE fprog
    /\ flast' = NoFLast
    /\ UNCHANGED <<chf, hwfade, chduty, g_fade_evt, events_mask, fpc, fch, nfaders,
                   nfades, faborted>>
    /\ UNCHANGED lights
    /\ UNCHANGED <<ecloVars, compVars>>

\* fd_events_handler: one round of the do-while loop
ConsumerStep ==
    /\ ~faborted
    /\ cpc = "loop"
    /\ LET calls == EndCalls(cx, ci, chf)
       IN  /\ flast' = [NoFLast EXCEPT !.calls = calls,
                                         !.fired = onFadeEvent(calls, lights)]
           /\ cyc' = cyc \o [n \in 1 .. Len(calls) |-> calls[n].slot]
           /\ fprog' = IF fprog = "seen" /\ \E n \in 1 .. Len(calls) : calls[n].slot = CurBit
                     THEN "ended" ELSE fprog
    /\ ci' = ci + 1
    /\ cpc' = IF ci + 1 < LEDC_CHANNEL_MAX THEN "loop" ELSE "wait"
    /\ UNCHANGED <<chf, hwfade, chduty, g_fade_evt, eg, events_mask, cx, cb0, fpc,
                   fch, nfaders, nfades, faborted>>
    /\ UNCHANGED lights
    /\ UNCHANGED <<ecloVars, compVars>>

\* fd_events_handler: xEventGroupWaitBits on a null event group
ConsumerCrash ==
    /\ ~faborted
    /\ cpc = "wait"
    /\ ~g_fade_evt
    /\ faborted' = TRUE
    /\ flast' = NoFLast
    /\ UNCHANGED <<chf, hwfade, chduty, g_fade_evt, eg, events_mask, cpc, cx, ci,
                   cyc, cb0, fpc, fch, fprog, nfaders, nfades>>
    /\ UNCHANGED lights
    /\ UNCHANGED <<ecloVars, compVars>>

(***************************************************************************)
(* CompositeLight: a light made of light sources                           *)
(***************************************************************************)
MaxMembers == 3       \* light sources in a composite
MaxCompOps == 2       \* calls that change values on the composite over a run
LEDC_TIMER_BIT_MAX == 5  \* first duty resolution the model's LEDC timers lack

DEFAULT_FADE_TIME == 1000
fadetime == DEFAULT_FADE_TIME

\* what the last step did: the call, its arguments and result, and the calls
\* it made on the light sources, in order
NoCLast == [op |-> "none", value |-> 0, duration |-> 0, id |-> 0, ltype |-> "none",
            ret |-> FALSE, calls |-> <<>>, n |-> 0]

\* the lights handed to a composite: an LEDCLight without a fade controller
\* (value and hpoint are what the LEDC channel runs, cfg_hpoint is the
\* hpoint PWMCtl keeps in the channel's cfg), and a GPIOLight, whose
\* getMaxValue is 1 and whose curve is binary
MemberMaxima == {5, 10, 20}
MemberLights ==
    {[ltype |-> "dimmable", max |-> m, curve |-> "linear", pwr |-> 1, value |-> 0,
      hpoint |-> 0, cfg_hpoint |-> 0] : m \in MemberMaxima}
    \cup {[ltype |-> "constant", max |-> 1, curve |-> "binary", pwr |-> 1, value |-> 0,
           hpoint |-> 0, cfg_hpoint |-> 0]}
MemberIds == 1 .. 3
SubTypes == {"dimmable", "constant"}
Policies == {"incremental", "equal", "phaseshift"}
CompValues == {0, 7, 25, 35}
CompDurations == {0, -1}
PwmResolutions == {3, 6}

\* PWMCtl::chDutyPhase on the channel of a light: cfg takes duty and phase;
\* ledc_set_duty_and_update writes both, the other build writes the hpoint
\* with ledc_set_duty_with_hpoint only for a phase that is not 0, and
\* ledc_set_duty leaves the hpoint the channel runs
chDutyPhase(l, target, phase) ==
    [l EXCEPT !.value = target,
              !.cfg_hpoint = phase,
              !.hpoint = IF setnupdate \/ phase # 0 THEN phase ELSE @]

\* LEDCLight::set_to_value (chDuty keeps cfg.hpoint), GPIOLight::set_to_value
LightSetToValue(l, value) ==
    IF l.ltype = "constant"
    THEN [l EXCEPT !.value = IF value # 0 THEN 1 ELSE 0]
    ELSE chDutyPhase(l, value, l.cfg_hpoint)

\* LEDCLight::fade_to_value with fc == nullptr, GenericLight::fade_to_value
LightFadeTo(l, value, duration) == LightSetToValue(l, value)

\* LEDCLight::setDutyShift(dshift): chPhase keeps cfg.duty
setDutyShift(l, dshift) ==
    chDutyPhase(l, l.value, IF dshift > l.max THEN l.max ELSE dshift)

\* LEDCLight::setDutyShift(duty, dshift)
setDutyShiftDuty(l, target, dshift) ==
    chDutyPhase(l, target, IF dshift > l.max THEN l.max ELSE dshift)

\* LEDCLight::getDutyShift: the hpoint the channel runs
getDutyShift(l) == l.hpoint

\* LEDCLight::setPWM: the timer takes the resolution, capped, and the
\* light's getMaxValue follows it
setPWM(l, resolution) ==
    LET res == IF resolution >= LEDC_TIMER_BIT_MAX THEN LEDC_TIMER_BIT_MAX - 1
               ELSE resolution
    IN  [l EXCEPT !.max = (2 ^ res) - 1]

\* a power as a fraction
Rat(n, d) == [num |-> n, den |-> d]
RatAdd(a, b) == Rat(a.num * b.den + b.num * a.den, a.den * b.den)
RatEq(a, b) == a.num * b.den = b.num * a.den

\* a constant light that reports its full power whatever its state
LightCurrentPower_always(l) ==
    IF l.ltype = "constant" THEN Rat(l.pwr, 1)
    ELSE Rat(l.pwr * l.value, l.max)

\* GenericLight::getCurrentPower, GPIOLight::getCurrentPower
LightCurrentPower(l) ==
    IF l.ltype = "constant" THEN Rat(IF l.value # 0 THEN l.pwr ELSE 0, 1)
    ELSE Rat(l.pwr * l.value, l.max)

RECURSIVE SumCurrentPower(_, _)
SumCurrentPower(members, n) ==
    IF n = 0 THEN Rat(0, 1)
    ELSE RatAdd(SumCurrentPower(members, n - 1), LightCurrentPower(members[n].light))

\* CompositeLight::getCurrentPower
getCurrentPower(members) ==
    IF ps = "equal"
    THEN IF Len(members) # 0
         THEN LET h == LightCurrentPower(members[1].light)
              IN  Rat(h.num * Len(members), h.den)
         ELSE Rat(0, 1)
    ELSE SumCurrentPower(members, Len(members))

\* GenericLight::goValue on a light of its own
LightGoValue(l, value, duration) ==
    LET v == IF l.curve # "linear" THEN curveMap(value, l.max, l.max) ELSE value
        d == IF duration < 0 THEN fadetime ELSE duration
    IN  LightFadeTo(l, v, d)

LightGoMax(l, duration) == LightGoValue(l, l.max, duration)
LightGoOff(l, duration) == LightGoValue(l, 0, duration)

\* a scaled set that maps on the light's default scale
LightGoValueScaled_defscale(l, value, scale, duration) ==
    LET sc == IF scale <= 0 THEN brtscale ELSE scale
    IN  IF value >= sc THEN LightGoMax(l, duration)
        ELSE IF value = 0 THEN LightGoOff(l, duration)
        ELSE LightFadeTo(l, curveMap(value, l.max, brtscale), duration)

\* GenericLight::goValueScaled on a light of its own
LightGoValueScaled(l, value, scale, duration) ==
    LET sc == IF scale <= 0 THEN brtscale ELSE scale
    IN  IF value >= sc THEN LightGoMax(l, duration)
        ELSE IF value = 0 THEN LightGoOff(l, duration)
        ELSE LightFadeTo(l, curveMap(value, l.max, sc), duration)

\* GenericLight::getValueScaled, GPIOLight::getValueScaled
LightGetValueScaled(l, scale) ==
    LET sc == IF scale <= 0 THEN brtscale ELSE scale
    IN  IF l.ltype = "constant" THEN (IF l.value # 0 THEN sc ELSE 0)
        ELSE curveUnMap(l.value, l.max, sc)

\* CompositeLight::getValue_incremental
RECURSIVE getValue_incremental(_, _)
getValue_incremental(members, n) ==
    IF n = 0 THEN 0 ELSE getValue_incremental(members, n - 1) + members[n].light.value

\* CompositeLight::getValue
getValue(members) ==
    IF ps \in {"equal", "phaseshift"}
    THEN (IF Len(members) # 0 THEN members[1].light.value ELSE 0)
    ELSE getValue_incremental(members, Len(members))

\* CompositeLight::exist
exist(members, id) == \E n \in 1 .. Len(members) : members[n].id = id

\* the fields of the composite that addLight works on
Composite == [ls |-> ls, combined_value |-> combined_value, power |-> power, luma |-> luma]

\* an addLight that takes any id
addLight_anyid(c, gl, id) ==
    IF gl.ltype # sub_type THEN [c |-> c, ret |-> FALSE]
    ELSE LET node == [id |-> id, light |-> gl]
             added == Append(c.ls, node)
             cv == IF ps \in {"equal", "phaseshift"}
                   THEN (IF Len(added) = 1 THEN gl.max ELSE c.combined_value)
                   ELSE c.combined_value + gl.max
             lm == IF ps \notin {"equal", "phaseshift"} /\ gl.curve = "binary"
                   THEN "linear" ELSE c.luma
         IN  [c |-> [ls |-> added, combined_value |-> cv,
                     power |-> c.power + gl.pwr, luma |-> lm],
              ret |-> TRUE]

\* an addLight that takes any kind of light
addLight_anykind(c, gl, id) ==
    IF exist(c.ls, id) THEN [c |-> c, ret |-> FALSE]
    ELSE LET node == [id |-> id, light |-> gl]
             added == Append(c.ls, node)
             cv == IF ps \in {"equal", "phaseshift"}
                   THEN (IF Len(added) = 1 THEN gl.max ELSE c.combined_value)
                   ELSE c.combined_value + gl.max
             lm == IF ps \notin {"equal", "phaseshift"} /\ gl.curve = "binary"
                   THEN "linear" ELSE c.luma
         IN  [c |-> [ls |-> added, combined_value |-> cv,
                     power |-> c.power + gl.pwr, luma |-> lm],
              ret |-> TRUE]

\* CompositeLight::addLight
addLight(c, gl, id) ==
    IF exist(c.ls, id) THEN [c |-> c, ret |-> FALSE]
    ELSE IF gl.ltype # sub_type THEN [c |-> c, ret |-> FALSE]
    ELSE LET node == [id |-> id, light |-> gl]
             added == Append(c.ls, node)
             cv == IF ps \in {"equal", "phaseshift"}
                   THEN (IF Len(added) = 1 THEN gl.max ELSE c.combined_value)
                   ELSE c.combined_value + gl.max
             lm == IF ps \notin {"equal", "phaseshift"} /\ gl.curve = "binary"
                   THEN "linear" ELSE c.luma
         IN  [c |-> [ls |-> added, combined_value |-> cv,
                     power |-> c.power + gl.pwr, luma |-> lm],
              ret |-> TRUE]

\* a call on a light source, recorded with the source's id
MemberCall(r, n, op, target, dshift, l) ==
    [r EXCEPT !.ls[n].light = l,
              !.calls = Append(@, [id |-> r.ls[n].id, op |-> op, target |-> target,
                                   dshift |-> dshift])]

\* fade_to_value of a light source
MemberFade(r, n, value, duration) ==
    MemberCall(r, n, "fade_to_value", value, 0,
               LightFadeTo(r.ls[n].light, value, duration))

\* an incremental set that does not take what it gave off the value
RECURSIVE goValueIncremental_keep(_, _, _, _)
goValueIncremental_keep(r, n, value, duration) ==
    IF n > Len(r.ls) THEN r
    ELSE LET m == r.ls[n].light.max
         IN  IF value >= m
             THEN goValueIncremental_keep(MemberFade(r, n, m, duration), n + 1,
                                          value, duration)
             ELSE goValueIncremental_keep(MemberFade(r, n, value, duration), n + 1,
                                          0, duration)

\* CompositeLight::goValueIncremental, from the n-th light source on
RECURSIVE goValueIncremental(_, _, _, _)
goValueIncremental(r, n, value, duration) ==
    IF n > Len(r.ls) THEN r
    ELSE LET m == r.ls[n].light.max
         IN  IF value >= m
             THEN goValueIncremental(MemberFade(r, n, m, duration), n + 1,
                                     value - m, duration)
             ELSE goValueIncremental(MemberFade(r, n, value, duration), n + 1,
                                     0, duration)

\* an equal set that stops after the first light source
RECURSIVE goValueEqual_first(_, _, _, _)
goValueEqual_first(r, n, value, duration) ==
    IF n > Len(r.ls) \/ n > 1 THEN r
    ELSE goValueEqual_first(MemberFade(r, n, value, duration), n + 1, value, duration)

\* CompositeLight::goValueEqual, from the n-th light source on
RECURSIVE goValueEqual(_, _, _, _)
goValueEqual(r, n, value, duration) ==
    IF n > Len(r.ls) THEN r
    ELSE goValueEqual(MemberFade(r, n, value, duration), n + 1, value, duration)

\* the duty shift goValuePhaseShift computes for the n-th light source
DutyShift(l, n, value) == (value * (n - 1)) % l.max

\* a first loop that sets the duty shift right after it asked for the fade
RECURSIVE PhaseShiftQueue_atonce(_, _, _, _)
PhaseShiftQueue_atonce(r, n, value, duration) ==
    IF n > Len(r.ls) THEN r
    ELSE LET l == r.ls[n].light
             duty_shift == DutyShift(l, n, value)
         IN  IF duration # 0
             THEN IF getDutyShift(l) + value > l.max
                  THEN LET a == MemberCall(r, n, "setDutyShift", 0, duty_shift,
                                           setDutyShift(l, duty_shift))
                       IN  PhaseShiftQueue_atonce(MemberFade(a, n, value, duration), n + 1,
                                                  value, duration)
                  ELSE LET a == MemberFade(r, n, value, duration)
                           b == MemberCall(a, n, "setDutyShiftDuty", value, duty_shift,
                                    setDutyShiftDuty(a.ls[n].light, value, duty_shift))
                       IN  PhaseShiftQueue_atonce(b, n + 1, value, duration)
             ELSE PhaseShiftQueue_atonce(
                      MemberCall(r, n, "setDutyShiftDuty", value, duty_shift,
                                 setDutyShiftDuty(l, value, duty_shift)),
                      n + 1, value, duration)

\* CompositeLight::goValuePhaseShift, the first loop from the n-th light
\* source on; flags holds the channels whose duty shift is put off
RECURSIVE PhaseShiftQueue(_, _, _, _)
PhaseShiftQueue(r, n, value, duration) ==
    IF n > Len(r.ls) THEN r
    ELSE LET l == r.ls[n].light
             duty_shift == DutyShift(l, n, value)
         IN  IF duration # 0
             THEN IF getDutyShift(l) + value > l.max
                  THEN LET a == MemberCall(r, n, "setDutyShift", 0, duty_shift,
                                           setDutyShift(l, duty_shift))
                       IN  PhaseShiftQueue(MemberFade(a, n, value, duration), n + 1,
                                           value, duration)
                  ELSE PhaseShiftQueue(
                           [MemberFade(r, n, value, duration)
                                EXCEPT !.flags = @ \cup {n - 1}],
                           n + 1, value, duration)
             ELSE PhaseShiftQueue(
                      MemberCall(r, n, "setDutyShiftDuty", value, duty_shift,
                                 setDutyShiftDuty(l, value, duty_shift)),
                      n + 1, value, duration)

\* CompositeLight::goValuePhaseShift, the second loop from the n-th light
\* source on
RECURSIVE PhaseShiftApply(_, _, _)
PhaseShiftApply(r, n, value) ==
    IF n > Len(r.ls) THEN r
    ELSE IF (n - 1) \in r.flags
         THEN LET l == r.ls[n].light
                  duty_shift == DutyShift(l, n, value)
              IN  PhaseShiftApply(
                      MemberCall(r, n, "setDutyShiftDuty", value, duty_shift,
                                 setDutyShiftDuty(l, value, duty_shift)),
                      n + 1, value)
         ELSE PhaseShiftApply(r, n + 1, value)

\* CompositeLight::goValuePhaseShift
goValuePhaseShift(r, value, duration) ==
    IF r.ls[1].light.ltype # "dimmable" THEN goValueEqual(r, 1, value, duration)
    ELSE LET q == PhaseShiftQueue(r, 1, value, duration)
         IN  IF q.flags # {} THEN PhaseShiftApply(q, 1, value) ELSE q

\* CompositeLight::goValueComposite
goValueComposite(members, value, duration) ==
    LET r == [ls |-> members, calls |-> <<>>, flags |-> {}]
    IN  IF Len(members) = 0 THEN r
        ELSE IF ps = "equal" THEN goValueEqual(r, 1, value, duration)
        ELSE IF ps = "phaseshift" THEN goValuePhaseShift(r, value, duration)
        ELSE goValueIncremental(r, 1, value, duration)

\* GenericLight::goValue on the composite, whose fade_to_value is
\* goValueComposite; the curve maps the value onto the same maximum
CompositeGoValue(members, value, duration) ==
    LET v == IF luma # "linear"
             THEN curveMap(value, combined_value, combined_value) ELSE value
        d == IF duration < 0 THEN fadetime ELSE duration
    IN  goValueComposite(members, v, d)

\* the lights the application drives by itself: LEDCLights without a fade
\* controller on timers of 3, 5 and 10 bits, and GPIOLights
LightMaxima == {7, 31, 1023}
LightPowers == {1, 3}
Lights ==
    {[ltype |-> "dimmable", max |-> m, curve |-> "linear", pwr |-> p, value |-> 0,
      hpoint |-> 0, cfg_hpoint |-> 0] : m \in LightMaxima, p \in LightPowers}
    \cup {[ltype |-> "constant", max |-> 1, curve |-> "binary", pwr |-> p, value |-> 0,
           hpoint |-> 0, cfg_hpoint |-> 0] : p \in LightPowers}
LightValues == {0, 1, 3, 7, 10, 25, 49, 50, 99, 100, 500, 2500}
LightScales == {-1, 7, 50, 1023, 5000}

NoLLast == [op |-> "none", value |-> 0, scale |-> 0, read |-> 0, scaled |-> 0,
            power |-> Rat(0, 1)]

\* no light of its own
LightIdle ==
    /\ lt = CHOOSE l \in Lights : l.ltype = "dimmable" /\ l.max = 1023 /\ l.pwr = 1
    /\ llast = NoLLast

\* the composite before its constructor has run
CompBlank(share, build) ==
    /\ ps = share
    /\ setnupdate = build
    /\ clast = NoCLast

\* CompositeLight(type, share): an empty composite
CompStart(type, share, build) ==
    /\ CompBlank(share, build)
    /\ LightIdle
    /\ ls = <<>>
    /\ sub_type = type
    /\ combined_value = 0
    /\ power = 0
    /\ luma = "linear"

\* CompositeLight(gl, id, share): the curve and the kind of gl, then addLight
CompStartWith(gl, id, share, build) ==
    /\ CompBlank(share, build)
    /\ LightIdle
    /\ sub_type = gl.ltype
    /\ LET a == addLight([ls |-> <<>>, combined_value |-> 0, power |-> 0,
                          luma |-> gl.curve], gl, id)
       IN  /\ ls = a.c.ls
           /\ combined_value = a.c.combined_value
           /\ power = a.c.power
           /\ luma = a.c.luma

CompInit ==
    \E share \in Policies, build \in BOOLEAN :
        \/ \E type \in SubTypes : CompStart(type, share, build)
        \/ \E gl \in MemberLights, id \in MemberIds : CompStartWith(gl, id, share, build)

\* the composite while the model looks at the other parts
CompIdle == CompStart("dimmable", "incremental", FALSE)

\* addLight(gl, id) on the composite
AddLight ==
    /\ Len(ls) < MaxMembers
    /\ \E gl \in MemberLights, id \in MemberIds :
          LET a == addLight(Composite, gl, id)
          IN  /\ ls' = a.c.ls
              /\ combined_value' = a.c.combined_value
              /\ power' = a.c.power
              /\ luma' = a.c.luma
              /\ clast' = [NoCLast EXCEPT !.op = "addLight", !.id = id,
                                          !.ltype = gl.ltype,
                                          !.ret = a.ret, !.n = clast.n]
    /\ UNCHANGED <<ps, sub_type, setnupdate, lt, llast>>
    /\ UNCHANGED <<ecloVars, fadeVars>>

\* goValue(value, duration) on the composite
CompGoValue ==
    /\ clast.n < MaxCompOps
    /\ \E value \in CompValues, duration \in CompDurations :
          LET r == CompositeGoValue(ls, value, duration)
          IN  /\ ls' = r.ls
              /\ clast' = [NoCLast EXCEPT !.op = "goValue", !.value = value,
                                          !.duration = duration,
                                          !.calls = r.calls, !.n = clast.n + 1]
    /\ UNCHANGED <<ps, sub_type, combined_value, power, luma, setnupdate, lt, llast>>
    /\ UNCHANGED <<ecloVars, fadeVars>>

\* goOff(duration) on the composite: goValue(0, duration)
CompGoOff ==
    /\ clast.n < MaxCompOps
    /\ \E duration \in CompDurations :
          LET r == CompositeGoValue(ls, 0, duration)
          IN  /\ ls' = r.ls
              /\ clast' = [NoCLast EXCEPT !.op = "goOff", !.duration = duration,
                                          !.calls = r.calls, !.n = clast.n + 1]
    /\ UNCHANGED <<ps, sub_type, combined_value, power, luma, setnupdate, lt, llast>>
    /\ UNCHANGED <<ecloVars, fadeVars>>

\* goMax(duration) on the composite: goValue(getMaxValue(), duration)
CompGoMax ==
    /\ clast.n < MaxCompOps
    /\ \E duration \in CompDurations :
          LET r == CompositeGoValue(ls, combined_value, duration)
          IN  /\ ls' = r.ls
              /\ clast' = [NoCLast EXCEPT !.op = "goMax", !.value = combined_value,
                                          !.duration = duration,
                                          !.calls = r.calls, !.n = clast.n + 1]
    /\ UNCHANGED <<ps, sub_type, combined_value, power, luma, setnupdate, lt, llast>>
    /\ UNCHANGED <<ecloVars, fadeVars>>

\* setPWM(resolution, freq) on a dimmable light source of the composite,
\* which getLight(id) hands out
MemberSetPWM ==
    /\ clast.n < MaxCompOps
    /\ \E n \in 1 .. Len(ls), resolution \in PwmResolutions :
          /\ ls[n].light.ltype = "dimmable"
          /\ ls' = [ls EXCEPT ![n].light = setPWM(@, resolution)]
          /\ clast' = [NoCLast EXCEPT !.op = "setPWM", !.id = ls[n].id,
                                      !.value = resolution, !.n = clast.n + 1]
    /\ UNCHANGED <<ps, sub_type, combined_value, power, luma, setnupdate, lt, llast>>
    /\ UNCHANGED <<ecloVars, fadeVars>>

\* what the application reads from the light after a call
LightRead(l, op, value, scale) ==
    [op |-> op, value |-> value, scale |-> scale, read |-> l.value,
     scaled |-> LightGetValueScaled(l, scale), power |-> LightCurrentPower(l)]

LightCalled(l, op, value, scale) ==
    /\ lt' = l
    /\ llast' = LightRead(l, op, value, scale)
    /\ UNCHANGED <<ls, ps, sub_type, combined_value, power, luma, setnupdate, clast>>
    /\ UNCHANGED <<ecloVars, fadeVars>>

\* goValue(value, 0) on the light
GoValueCall ==
    \E value \in LightValues : LightCalled(LightGoValue(lt, value, 0), "goValue", value, -1)

\* goValueScaled(value, scale, 0) on the light
GoValueScaledCall ==
    \E value \in LightValues, scale \in LightScales :
        LightCalled(LightGoValueScaled(lt, value, scale, 0), "goValueScaled", value, scale)

\* goOff(0) on the light
GoOffCall == LightCalled(LightGoOff(lt, 0), "goOff", 0, -1)

\* goMax(0) on the light
GoMaxCall == LightCalled(LightGoMax(lt, 0), "goMax", 0, -1)

\* a light constructed
LightInit ==
    /\ CompBlank("incremental", FALSE)
    /\ lt \in Lights
    /\ llast = NoLLast
    /\ ls = <<>>
    /\ sub_type = "dimmable"
    /\ combined_value = 0
    /\ power = 0
    /\ luma = "linear"

InitLight == EcloIdle /\ FadeIdle /\ LightInit

NextLight == GoValueCall \/ GoValueScaledCall \/ GoOffCall \/ GoMaxCall

SpecLight == InitLight /\ [][NextLight]_vars

InitComposite == EcloIdle /\ FadeIdle /\ CompInit

NextComposite == AddLight \/ CompGoValue \/ CompGoOff \/ CompGoMax \/ MemberSetPWM

SpecComposite == InitComposite /\ [][NextComposite]_vars

InitFade == EcloIdle /\ FadeInit /\ CompIdle

NextFade ==
    \/ SetFader
    \/ LightCtor
    \/ FadeByTime
    \/ LightFadeToValue
    \/ FadeStartNotify
    \/ EngineFade
    \/ HwEvent
    \/ ConsumerWake
    \/ ConsumerStep
    \/ ConsumerCrash

SpecFade == InitFade /\ [][NextFade]_vars

InitMask == EcloIdle /\ MaskInit /\ CompIdle

NextMask == SetFader \/ EngineFade \/ HwEvent \/ ConsumerWake \/ ConsumerStep

SpecMask == InitMask /\ [][NextMask]_vars

\* the consumer task is the only one that blocks on the event group and the
\* scheduler runs it whenever it is ready: its steps are weakly fair
InitConsumer == EcloIdle /\ FadeIdle /\ CompIdle

SpecConsumer ==
    /\ InitConsumer
    /\ [][NextMask]_vars
    /\ WF_vars(ConsumerWake)
    /\ WF_vars(ConsumerStep)

Init == EcloInit /\ FadeIdle /\ CompIdle

Next == GrpSubscribe \/ EvtSubscribe \/ Unsubscribe \/ Post \/ Dispatch

\* the node's subscriptions over its life, with the loop shut down by the
\* application at any time
InitNode == NodeInit /\ FadeIdle /\ CompIdle

NextNode == GrpSubscribe \/ EvtSubscribe \/ Unsubscribe \/ Destroy \/ LoopDown

SpecNode == InitNode /\ [][NextNode]_vars

\* the node on a busy loop: any node id, a fallback callback, bursts of commands
InitBus == BusInit /\ FadeIdle /\ CompIdle

NextBus == EvtSubscribe \/ EventcbAttach \/ Post \/ Burst \/ Dispatch

SpecBus == InitBus /\ [][NextBus]_vars

Spec == Init /\ [][Next]_vars

(***************************************************************************)
(* Properties of the event node                                            *)
(***************************************************************************)
\* the node holds the permission bit for the group in some subscription
HoldsRead(subs, g) ==
    \E i \in 1 .. Len(subs) : subs[i].gid = g /\ GRP_BIT_R \in subs[i].grpmode
HoldsWrite(subs, g) ==
    \E i \in 1 .. Len(subs) : subs[i].gid = g /\ GRP_BIT_W \in subs[i].grpmode

\* the operations evt_cmd_runner knows
CmdOps == {"goValue", "goValueScaled", "goMax", "goMin", "goOn", "goOff",
           "goToggle", "goIncr", "goDecr", "goStep", "goStepScaled"}

\* the last step dispatched a Command event and the node's handler ran
CmdDelivered(l) == l.msg.base = "LCMD_EVENTS" /\ l.delivered > 0

\* C1: a Command event delivered to the node on a group for which it holds
\* no read permission (a write-only subscription, or none for the group)
\* leaves the duty of the light as it was, and runs no command.
C1_NoReadNoChange ==
    [][(CmdDelivered(last') /\ ~HoldsRead(subscr, last'.msg.gid))
        => (duty' = duty /\ last'.applied = 0 /\ last'.fired = 0)]_vars

\* C1 witness: a goMax command was delivered on a group the node is
\* subscribed to write-only, with the light off, and the light stayed off.
C1_Witness ==
    /\ CmdDelivered(last)
    /\ last.msg.event = "goMax"
    /\ HoldsWrite(subscr, last.msg.gid)
    /\ ~HoldsRead(subscr, last.msg.gid)
    /\ duty = 0

\* C2: once grp_subscribe(g, perm) has left a Command subscription with the
\* read bit for group g, a Command event dispatched for group g reaches the
\* node and is applied to its light.
C2_SubscribedCommandApplied ==
    (/\ last.msg.base = "LCMD_EVENTS"
     /\ last.msg.event \in CmdOps
     /\ \E i \in 1 .. Len(subscr) :
            /\ subscr[i].base = "LCMD_EVENTS"
            /\ subscr[i].gid = last.msg.gid
            /\ GRP_BIT_R \in subscr[i].grpmode)
    => (last.delivered >= 1 /\ last.applied >= 1)

\* the State events among those the last step posted
StateUpdates(l) ==
    {k \in 1 .. Len(l.posted) : l.posted[k].event = "stateUpdate"}

\* C3: whenever onChange fired, a State event was posted to every group the
\* node holds write permission for, its own default group included.
C3_ChangePublishedToWriters ==
    last.fired > 0 =>
        \A g \in Gids :
            HoldsWrite(subscr, g) =>
                \E k \in StateUpdates(last) :
                    /\ last.posted[k].base = "LSTATE_EVENTS"
                    /\ last.posted[k].gid = g

ServiceAnswer(l) ==
    IF l.msg.dst = myid \/ l.msg.dst = ID_ANY
    THEN CASE l.msg.event = "echoRq" ->
                /\ Len(l.posted) = 1
                /\ l.posted[1].event = "echoRpl"
                /\ l.posted[1].dst = l.msg.src
           [] l.msg.event = "getState" ->
                /\ Len(l.posted) = 1
                /\ l.posted[1].event = "stateReport"
                /\ l.posted[1].dst = l.msg.src
           [] OTHER -> l.posted = <<>>
    ELSE l.posted = <<>>

\* C5: a Service event that reached the node once is answered exactly when
\* its destination is the node's id or ID_ANY: an echo request by an echo
\* reply to the requester, a get-state request by a state report to the
\* requester, anything else by nothing.
C5_ServiceAnswered ==
    (last.msg.base = "LSERVICE_EVENTS" /\ last.delivered = 1) => ServiceAnswer(last)

(***************************************************************************)
(* Properties of the fade controller                                       *)
(***************************************************************************)
\* number of times slot k is in the sequence
Count(seq, k) == Cardinality({n \in 1 .. Len(seq) : seq[n] = k})

\* the consumer has finished a wake cycle
CycleDone == cpc = "wait" /\ cx # {}

\* C6: when a wake cycle is over, every slot in the mask whose bit was
\* observed and that had a callback got exactly one fade_end callback in the
\* cycle, and no slot whose bit was not observed got one.
C6_SignalOneCallback ==
    CycleDone =>
        \A k \in Slots :
            /\ (k \in cx /\ k \in events_mask /\ k \in cb0) => Count(cyc, k) = 1
            /\ k \notin cx => Count(cyc, k) = 0

\* the logical slot that owns a physical channel
SlotOf(param) == param.speed_mode * LEDC_CHANNEL_MAX + param.channel

\* C7: a run of the ISR with an event group adds to the group exactly the bit
\* of the slot that owns the reporting channel when the event is
\* LEDC_FADE_END_EVT, and no bit for another event.
C7_IsrSetsSlotBit ==
    [][(flast'.isr # NoParam /\ g_fade_evt)
        => eg' = eg \cup (IF flast'.isr.event = LEDC_FADE_END_EVT
                          THEN {SlotOf(flast'.isr)} ELSE {})]_vars

\* C8: a step of the ISR invokes no callback and changes nothing of the
\* controller but the bits of the event group, which it only adds to; every
\* fade_end callback is invoked by the consumer task inside its loop.
C8_IsrOnlySetsBits ==
    [][/\ flast'.isr # NoParam =>
            /\ flast'.calls = <<>>
            /\ eg \subseteq eg'
            /\ UNCHANGED <<chf, cpc, cx, ci, cyc, cb0, fpc, fch>>
       /\ \A n \in 1 .. Len(flast'.calls) :
            /\ flast'.calls[n].ctx # "isr"
            /\ flast'.calls[n].event = "fade_end" =>
                    (flast'.calls[n].ctx = "consumer" /\ cpc = "loop")]_vars

\* C8 witness: the ISR has just set a bit for a fade-end event while the
\* consumer task is in a wake cycle in which it has run a fade_end callback.
C8_Witness ==
    /\ flast.isr.event = LEDC_FADE_END_EVT
    /\ IsrBit(flast.isr) \in eg
    /\ cpc = "loop"
    /\ cyc # <<>>

\* C9: the fade_end callback of a fade accepted by fadebyTime, on a slot with
\* an engine and a callback, is never delivered while that fadebyTime call
\* has not yet invoked fade_start.
C9_EndAfterStart == fprog # "ended"

\* C10: the slots whose fade_end callback ran in the current wake cycle are
\* in strictly ascending order (so each at most once), and each is a slot
\* whose bit the consumer observed.
C10_AscendingOnce ==
    /\ \A a \in 1 .. Len(cyc), b \in 1 .. Len(cyc) : a < b => cyc[a] < cyc[b]
    /\ \A a \in 1 .. Len(cyc) : cyc[a] \in cx

\* C10 witness: a wake cycle in which two slots got their fade_end callback.
C10_Witness == CycleDone /\ Len(cyc) >= 2

\* the last step was a call of fadebyTime, by the application or by a light
FadeCall(c) == c.op \in {"fadebyTime", "fade_to_value"}

\* C11: a call fadebyTime(ch, target, ..) for a slot ch that has no fade
\* engine, the driver not failing a duty set, leaves channel ch at the target
\* duty, starts no hardware fade, invokes no callback and has returned.
C11_NoEngineImmediateSet ==
    [][(/\ FadeCall(flast'.call)
        /\ ~chf[flast'.call.ch].fe
        /\ flast'.call.err # "ESP_FAIL")
        => (/\ chduty'[flast'.call.ch] = flast'.call.target
            /\ hwfade' = hwfade
            /\ flast'.calls = <<>>
            /\ flast'.call.done)]_vars

\* C12: when the event group could not be created, the consumer task is not
\* started (so it cannot crash the program either) and no channel runs a
\* hardware fade.
C12_NoGroupNoConsumerNoFade ==
    ~g_fade_evt =>
        (/\ cpc = "none"
         /\ ~faborted
         /\ \A k \in Slots : hwfade[k] = NoFade)

\* the driver rejected the fade of the last step's call: an engine was
\* consulted and no fade was started
FadeRejected(c) == FadeCall(c) /\ c.done /\ ~c.started /\ c.err = "none"

\* the slot fadebyTime consults for channel ch
FadeSlot(ch) == ch % (LEDC_SPEED_MODE_MAX * LEDC_TIMER_MAX)

\* C13: when the driver rejects the fade that a light's fade_to_value asks
\* for, fadebyTime returns false and the light's channel is set to the
\* target duty at once.
C13_RejectedFallsBack ==
    [][(flast'.call.op = "fade_to_value" /\ FadeRejected(flast'.call))
        => (/\ ~flast'.call.ret
            /\ chduty'[flast'.call.ch] = flast'.call.target)]_vars

\* C14: when the driver does not accept the fade a goValue leads to, the
\* request is dropped: the duties, the running fades, the event group and
\* the controller stay as they were, no call stays in progress, no callback
\* and no onChange is invoked, and the program goes on.
C14_RejectedIsDropped ==
    [][FadeRejected(flast'.call)
        => (/\ UNCHANGED <<chduty, hwfade, eg, chf, cpc, cx, ci, cyc, faborted>>
            /\ fpc' = "idle"
            /\ fprog' = "none"
            /\ flast'.calls = <<>>
            /\ flast'.fired = {}
            /\ ~flast'.call.ret)]_vars

\* C14 witness: the fade of a light was rejected while its channel still
\* runs an earlier fade.
C14_Witness ==
    /\ flast.call.op = "fade_to_value"
    /\ FadeRejected(flast.call)
    /\ hwfade[FadeSlot(flast.call.ch)] # NoFade

\* C15: a call of fadebyTime that has returned true has started a hardware
\* fade.
C15_TrueOnlyIfStarted ==
    (FadeCall(flast.call) /\ flast.call.done /\ flast.call.ret) => flast.call.started

\* C16: a call of a light that changes the duty of a channel fires the
\* onChange of that light in the same step, and a fade_start callback fires
\* no onChange.
C16_ChangeFiresOnChange ==
    [][/\ (/\ flast'.call.op \in {"fade_to_value", "set_to_value"}
           /\ chduty' # chduty) => flast'.call.ch \in flast'.fired
       /\ (\E n \in 1 .. Len(flast'.calls) : flast'.calls[n].event = "fade_start")
            => flast'.fired = {}]_vars

(***************************************************************************)
(* Properties of the light behind the event node                           *)
(***************************************************************************)
\* the last step ran exactly one command of the kind on the node's light
Ran(l, events) == l.msg.base = "LCMD_EVENTS" /\ l.applied = 1 /\ l.msg.event \in events

\* C17: the committed value of the light is always within 0 .. maxValue.
C17_ValueWithinMax == 0 <= duty /\ duty <= getMaxValue

\* the step and the scale of a decrement command
DecrStep(m) == IF m.event = "goDecr" THEN (-1) * increment ELSE m.step
DecrScale(m) == IF m.event = "goDecr" THEN brtscale ELSE m.scale

\* C18: a goDecr, or a goStepScaled with a negative step, never raises the
\* value of the light, and leaves it at 0 when the magnitude of the step is
\* at least the light's current scaled value.
C18_DecrementClampsAtZero ==
    [][(Ran(last', {"goDecr", "goStepScaled"}) /\ DecrStep(last'.msg) < 0)
        => (/\ duty' <= duty
            /\ (0 - DecrStep(last'.msg)) >= getValueScaled(duty, DecrScale(last'.msg))
                    => duty' = 0)]_vars

\* the scale goValueScaled works with
EffectiveScale(scale) == IF scale <= 0 THEN DEFAULT_SCALE ELSE scale

\* C19: goValueScaled(value, scale) leaves the light where goMax leaves it
\* when value >= effective scale, where goOff leaves it when value = 0, and
\* otherwise at the value mapped from [0, scale] onto [0, maxValue]; it
\* commits once in each case.
C19_ScaledValueCases ==
    [][Ran(last', {"goValueScaled"})
        => LET v == last'.msg.value
               sc == EffectiveScale(last'.msg.scale)
           IN  /\ last'.fired = 1
               /\ duty' = IF v >= sc THEN goMax(duty, -1).duty
                          ELSE IF v = 0 THEN goOff(duty, -1).duty
                          ELSE (v * getMaxValue) \div sc]_vars

\* C19 witness: a goValueScaled with the default scale asked for by a scale
\* below 1 and a value inside the scale has set the mapped value.
C19_Witness ==
    /\ Ran(last, {"goValueScaled"})
    /\ last.msg.scale <= 0
    /\ last.msg.value > 0
    /\ last.msg.value < DEFAULT_SCALE
    /\ duty = (last.msg.value * getMaxValue) \div DEFAULT_SCALE
    /\ duty > 0
    /\ duty < getMaxValue

(***************************************************************************)
(* Properties of the composite light                                       *)
(***************************************************************************)
Min(a, b) == IF a <= b THEN a ELSE b

RECURSIVE Given(_, _)
\* what the first n fade_to_value calls of a step handed out in total
Given(calls, n) == IF n = 0 THEN 0 ELSE Given(calls, n - 1) + calls[n].target

\* C20: under the incremental policy goValue(v) calls fade_to_value once on
\* every light source, in order of insertion, with the smaller of the
\* source's maximum and what is left of v after the sources before it, so no
\* source gets more than its maximum and the sources after the value ran out
\* get 0; the sources are left at the values they were given.
C20_IncrementalShares ==
    (ps = "incremental" /\ clast.op = "goValue")
        => /\ Len(clast.calls) = Len(ls)
           /\ \A n \in 1 .. Len(ls) :
                 /\ clast.calls[n].id = ls[n].id
                 /\ clast.calls[n].target =
                        Min(clast.value - Given(clast.calls, n - 1), ls[n].light.max)
                 /\ clast.calls[n].target <= ls[n].light.max
                 /\ ls[n].light.value = clast.calls[n].target
                 /\ (clast.value - Given(clast.calls, n - 1) = 0
                        => ls[n].light.value = 0)

\* the maxima and the values of the light sources, in order
Maxima == [n \in 1 .. Len(ls) |-> ls[n].light.max]
Values == [n \in 1 .. Len(ls) |-> ls[n].light.value]

\* C20 witness: an incremental composite of sources with maxima 10, 20, 5
\* has run goValue(25) and left them at 10, 15, 0.
C20_Witness ==
    /\ ps = "incremental"
    /\ clast.op = "goValue"
    /\ clast.value = 25
    /\ Maxima = <<10, 20, 5>>
    /\ Values = <<10, 15, 0>>

\* the composite holds dimmable light sources
HoldsDimmable == Len(ls) > 0 /\ ls[1].light.ltype = "dimmable"

\* C21: under the equal policy goValue(v) calls fade_to_value(v) once on
\* every light source, which leaves every dimmable source at v and all
\* sources at one value, and getCurrentPower of the composite is the current
\* power of the first source times the number of sources.
C21_EqualShares ==
    (ps = "equal" /\ clast.op = "goValue" /\ Len(ls) > 0)
        => /\ Len(clast.calls) = Len(ls)
           /\ \A n \in 1 .. Len(ls) :
                 /\ clast.calls[n].id = ls[n].id
                 /\ clast.calls[n].op = "fade_to_value"
                 /\ clast.calls[n].target = clast.value
                 /\ ls[n].light.ltype = "dimmable" => ls[n].light.value = clast.value
                 /\ ls[n].light.value = ls[1].light.value
           /\ LET first == LightCurrentPower(ls[1].light)
              IN  RatEq(getCurrentPower(ls), Rat(first.num * Len(ls), first.den))

\* C21 witness: an equal composite of two sources of maximum 10 has run
\* goValue(7), both are at 7 and the composite's power is 2 * 7/10.
C21_Witness ==
    /\ ps = "equal"
    /\ clast.op = "goValue"
    /\ clast.value = 7
    /\ Maxima = <<10, 10>>
    /\ Values = <<7, 7>>
    /\ RatEq(getCurrentPower(ls), Rat(14, 10))

\* C22: under the phaseshift policy with dimmable light sources, after
\* goValue(v) the channel of the source at ordinal i (from 0) runs the
\* phase offset (v * i) mod maxValue.
C22_PhaseOffsets ==
    (ps = "phaseshift" /\ clast.op = "goValue" /\ HoldsDimmable)
        => \A n \in 1 .. Len(ls) :
              getDutyShift(ls[n].light) = (clast.value * (n - 1)) % ls[n].light.max

\* the places of the calls of a kind in a sequence of calls
CallsOf(calls, op) == {k \in 1 .. Len(calls) : calls[k].op = op}

\* C23: in a phaseshift goValue with a duration, fade_to_value is called
\* once on every light source and before every put-off duty shift, and a
\* source whose current offset plus the value exceeds its maximum gets its
\* duty shift before its fade and no put-off duty shift.
C23_FadesBeforeDeferredShifts ==
    [][(clast'.op = "goValue" /\ clast'.duration # 0 /\ ps = "phaseshift" /\ HoldsDimmable)
        => LET c == clast'.calls
               fades == CallsOf(c, "fade_to_value")
               first == CallsOf(c, "setDutyShift")
               deferred == CallsOf(c, "setDutyShiftDuty")
           IN  /\ \A n \in 1 .. Len(ls) :
                     Cardinality({k \in fades : c[k].id = ls[n].id}) = 1
               /\ \A k \in deferred : \A j \in fades : j < k
               /\ \A n \in 1 .. Len(ls) :
                     (getDutyShift(ls[n].light) + clast'.value > ls[n].light.max)
                        => /\ \E k \in first : \E j \in fades :
                                 c[k].id = ls[n].id /\ c[j].id = ls[n].id /\ k < j
                           /\ \A k \in deferred : c[k].id # ls[n].id]_vars

\* C23 witness: a phaseshift goValue with a duration has set the duty shift
\* of one source before its fade and put off the duty shift of another.
C23_Witness ==
    /\ ps = "phaseshift"
    /\ clast.op = "goValue"
    /\ clast.duration # 0
    /\ HoldsDimmable
    /\ CallsOf(clast.calls, "setDutyShift") # {}
    /\ CallsOf(clast.calls, "setDutyShiftDuty") # {}

\* C24: an addLight with an id the composite already holds, or with a light
\* of another kind than sub_type, returns false and leaves the light
\* sources, combined_value, the power and the curve as they were.
C24_FailedAddChangesNothing ==
    [][(clast'.op = "addLight" /\ (exist(ls, clast'.id) \/ clast'.ltype # sub_type))
        => /\ ~clast'.ret
           /\ UNCHANGED <<ls, combined_value, power, luma>>]_vars

\* C24 witness: an addLight with an id that a light source has was refused.
C24_Witness ==
    /\ clast.op = "addLight"
    /\ ~clast.ret
    /\ exist(ls, clast.id)
    /\ clast.ltype = sub_type

\* C25: the ids of the light sources are pairwise distinct and every light
\* source is of the kind sub_type.
C25_DistinctIdsOneKind ==
    /\ \A n, m \in 1 .. Len(ls) : n # m => ls[n].id # ls[m].id
    /\ \A n \in 1 .. Len(ls) : ls[n].light.ltype = sub_type

\* C25 witness: a composite that was built around a light has taken two
\* more in.
C25_Witness ==
    /\ Len(ls) >= 3
    /\ clast.op = "addLight"
    /\ clast.ret

RECURSIVE SumMaxima(_)
SumMaxima(n) == IF n = 0 THEN 0 ELSE SumMaxima(n - 1) + ls[n].light.max

\* C26: getMaxValue of the composite is the sum of the maxima of its light
\* sources under the incremental policy and the maximum of the first source
\* under the other two.
C26_CombinedMaxFollowsMembers ==
    combined_value = IF ps = "incremental" THEN SumMaxima(Len(ls))
                     ELSE IF Len(ls) > 0 THEN ls[1].light.max ELSE 0

(***************************************************************************)
(* The node's subscriptions and its teardown                               *)
(***************************************************************************)
Present(subs, base, gid) ==
    \E i \in 1 .. Len(subs) : subs[i].base = base /\ subs[i].gid = gid

OneEntryPerPair(subs) ==
    \A i \in 1 .. Len(subs), j \in 1 .. Len(subs) :
        (subs[i].base = subs[j].base /\ subs[i].gid = subs[j].gid) => i = j

RegistersFor(calls, base) ==
    SelectSeq(calls, LAMBDA c : c.op = "register" /\ c.base = base)

\* C27: a subscription request for a (class, group) pair the table already
\* holds returns false and makes no call on the bus: nothing is registered,
\* the loop is not created, and the table, with the permission of the entry
\* it holds for the pair, stays as it was. At no time does the table hold
\* two entries for the same (class, group) pair.
C27_DuplicateRejected ==
    [][/\ OneEntryPerPair(subscr) /\ OneEntryPerPair(subscr')
       /\ (nlast'.op = "evt_subscribe" /\ Present(subscr, nlast'.base, nlast'.gid))
            => /\ ~nlast'.ok
               /\ nlast'.calls = <<>>
               /\ UNCHANGED <<subscr, handlers, nextInst, loop_levt_h, aborted>>
       /\ nlast'.op = "grp_subscribe"
            => /\ \A base \in {"LCMD_EVENTS", "LSERVICE_EVENTS"} :
                    Present(subscr, base, nlast'.gid)
                        => RegistersFor(nlast'.calls, base) = <<>>
               /\ (Present(subscr, "LCMD_EVENTS", nlast'.gid)
                        /\ Present(subscr, "LSERVICE_EVENTS", nlast'.gid))
                    => /\ ~nlast'.ok
                       /\ nlast'.calls = <<>>
                       /\ UNCHANGED <<subscr, handlers, nextInst, loop_levt_h, aborted>>
       /\ nlast'.op \in {"evt_subscribe", "grp_subscribe"}
            => /\ Len(subscr') >= Len(subscr)
               /\ SubSeq(subscr', 1, Len(subscr)) = subscr
      ]_vars

\* C27 witness: a request for a pair the table holds, asking for another
\* permission than the entry has, has been rejected without a bus call
C27_Witness ==
    /\ nlast.op = "evt_subscribe"
    /\ ~nlast.ok
    /\ nlast.calls = <<>>
    /\ \E i \in 1 .. Len(subscr) :
        /\ subscr[i].base = nlast.base
        /\ subscr[i].gid = nlast.gid
        /\ subscr[i].grpmode # GrpMode(nlast.perm)

Unregistrations(calls) == SelectSeq(calls, LAMBDA c : c.op = "unregister")

\* the (class, group, instance) of every table entry, in table order
EntryKeys(subs) ==
    [i \in 1 .. Len(subs) |-> BusCall("unregister", subs[i].base, subs[i].gid, subs[i].inst)]

Teardowns == {"unsubscribe", "~Eclo"}

\* C28: a teardown issues exactly one unregistration for every entry of the
\* table, in the order the entries were registered, and leaves the table
\* empty, so that a second teardown issues none.
C28_TeardownInRegistrationOrder ==
    [][nlast'.op \in Teardowns
        => /\ Unregistrations(nlast'.calls) = EntryKeys(subscr)
           /\ subscr' = <<>>
      ]_vars

\* C29: a teardown that finds the bus not running does nothing: it attempts
\* no unregistration, does not bring the bus up, and raises no fault.
C29_TeardownOnStoppedBus ==
    [][(nlast'.op \in Teardowns /\ ~loop_levt_h)
        => /\ nlast'.calls = <<>>
           /\ ~loop_levt_h'
           /\ ~aborted'
      ]_vars

\* C30: once the node is destroyed the bus holds none of its handler
\* registrations, and every unregistration the destructor issues names the
\* (class, group) key under which that instance was registered.
C30_NothingLeftRegistered ==
    [][(nlast'.op = "~Eclo" /\ ~aborted')
        => /\ handlers' = <<>>
           /\ \A k \in 1 .. Len(nlast'.calls) :
                LET c == nlast'.calls[k]
                IN  c.op = "unregister"
                    => \A n \in 1 .. Len(handlers) :
                        handlers[n].inst = c.inst
                            => handlers[n].base = c.base /\ handlers[n].id = c.id
      ]_vars

(***************************************************************************)
(* Publishing and the fallback callback                                    *)
(***************************************************************************)
\* C31: a publish of the node that fails or times out, as on a full queue
\* when the publish is made by a handler on the loop's own task, never
\* aborts the program.
C31_PublishNeverAborts == ~aborted

\* a message that is unknown to the node or does not match it
Unmatched(m) ==
    \/ m.base \notin {"LCMD_EVENTS", "LSERVICE_EVENTS"}
    \/ m.base = "LCMD_EVENTS" /\ \A i \in 1 .. Len(subscr) : subscr[i].gid # m.gid
    \/ m.base = "LSERVICE_EVENTS" /\ m.dst # myid /\ m.dst # ID_ANY

\* C35: every unknown or unmatched message delivered to the node (another
\* class than Command or Service, a Command on a group without subscription,
\* a Service message for another destination) is handed to the fallback
\* callback when one is attached and is dropped without effect otherwise.
C35_UnmatchedGoesToFallback ==
    [][(last'.delivered > 0 /\ Unmatched(last'.msg))
        => /\ last'.unknown = (IF unknown_evnt_cb THEN last'.delivered ELSE 0)
           /\ last'.applied = 0
           /\ last'.posted = <<>>
      ]_vars

ScaledRoundTrip ==
    /\ llast.op = "goValueScaled"
    /\ lt.ltype = "dimmable"
    /\ llast.scale > 0
    /\ 0 < llast.value
    /\ llast.value < llast.scale

Within1(a, b) == a - b <= 1 /\ b - a <= 1

\* C32 as stated: on every dimmable light, for every scale s > 0 and every
\* 0 < v < s, goValueScaled(v, s) followed by getValueScaled(s) reads a value
\* within 1 of v
C32_RoundTripAnyScale ==
    ScaledRoundTrip => Within1(llast.scaled, llast.value)

\* C32 amended: on every dimmable light, for every scale 0 < s <= getMaxValue()
\* and every 0 < v < s, goValueScaled(v, s) followed by getValueScaled(s) reads
\* a value within 1 of v
C32_RoundTripScaleWithinRange ==
    ScaledRoundTrip /\ llast.scale <= lt.max => Within1(llast.scaled, llast.value)

\* C32 witness: a round trip on a scale inside the light's range that loses one
\* unit to the two integer divisions
C32_Witness ==
    /\ ScaledRoundTrip
    /\ llast.scale <= lt.max
    /\ llast.scale < lt.max
    /\ llast.scaled = llast.value - 1

\* C33: on every kind of light (constant, dimmable, composite under each
\* policy), getValue() is 0 right after goOff and getMaxValue() right after
\* goMax
C33_OffIsZeroMaxIsMax ==
    /\ clast.op = "goOff" => getValue(ls) = 0
    /\ clast.op = "goMax" => getValue(ls) = combined_value
    /\ llast.op = "goOff" => llast.read = 0
    /\ llast.op = "goMax" => llast.read = lt.max

\* C34: a constant light read after a call reports its full power when it is
\* on and no power when it is off
C34_ConstantPowerOnOff ==
    (lt.ltype = "constant" /\ llast.op # "none")
        => /\ lt.value # 0 => RatEq(llast.power, Rat(lt.pwr, 1))
           /\ lt.value = 0 => RatEq(llast.power, Rat(0, 1))

\* C34 witness: a constant light of power 3 switched on by goValue(7) reports 3
C34_Witness ==
    /\ lt.ltype = "constant"
    /\ lt.pwr = 3
    /\ llast.op = "goValue"
    /\ llast.value = 7
    /\ lt.value = 1
    /\ RatEq(llast.power, Rat(3, 1))

\* C36: whatever setFader calls are made, a slot never has more than one
\* FadeEngine constructed for it, a slot that has its engine keeps that one,
\* and a slot that has a callback recorded never loses it (a call without a
\* callback leaves the recorded one)
C36_OneEngineCallbackKept ==
    [][\A k \in Slots :
          /\ chf'[k].made <= 1
          /\ chf'[k].fe <=> chf'[k].made = 1
          /\ chf[k].fe => chf'[k].fe /\ chf'[k].made = chf[k].made
          /\ chf[k].cb => chf'[k].cb]_vars

\* C36 witness: two setFader calls went to the same slot, one of them with a
\* callback, and the slot holds one engine and the callback
C36_Witness ==
    /\ nfaders = 2
    /\ lights = {}
    /\ \E k \in Slots :
          /\ chf[k].fe /\ chf[k].cb /\ chf[k].made = 1
          /\ \A j \in Slots \ {k} : ~chf[j].fe

\* C37: fadebyTime(ch, ...) for a channel of the slot table works with the
\* engine and the callback that setFader recorded for that very ch, and on
\* hardware channel ch: a fade is started only if slot ch has an engine and
\* then runs on channel ch, the start callback is slot ch's, a slot without
\* engine gets the duty set on channel ch, and no other channel is touched
C37_SameSlotSameChannel ==
    [][flast'.call.op = "fadebyTime"
          => LET ch == flast'.call.ch
                 target == flast'.call.target
             IN  /\ flast'.call.started
                        => chf[ch].fe /\ hwfade'[ch] = target /\ fch' = ch
                 /\ fprog' = "hw" => chf[ch].cb
                 /\ ~chf[ch].fe
                        => /\ ~flast'.call.started
                           /\ flast'.call.err = "ESP_OK" => chduty'[ch] = target
                 /\ \A j \in Slots \ {ch} :
                        hwfade'[j] = hwfade[j] /\ chduty'[j] = chduty[j]]_vars

\* C38: the consumer of a controller constructed with a mask of some of the
\* slots calls fade_end callbacks of slots in that mask only, whatever other
\* bits the event group holds when it wakes
C38_OnlyMaskedSlots ==
    [][\A n \in 1 .. Len(flast'.calls) :
          flast'.calls[n].ctx = "consumer" => flast'.calls[n].slot \in events_mask]_vars

\* the consumer calls the fade_end callback of slot b
EndCallback(b) ==
    \E n \in 1 .. Len(flast.calls) : flast.calls[n] = callback(b, "fade_end", "consumer")

\* C39: with a fair consumer task, a fade-ended bit in the event group for a
\* slot of the mask that has a callback is followed by the fade_end callback
\* of that slot, also when the bit is set during a wake cycle
C39_BitLeadsToCallback ==
    \A b \in Slots :
        (b \in eg /\ b \in events_mask /\ chf[b].cb) ~> EndCallback(b)

============================================================================
